---- MODULE Spec2Model ----
(***************************************************************************)
(* boxmonitor: the probing engine (src/src/monitor.rs), the monitoring     *)
(* task and the shared snapshot (src/src/main.rs) and the presentation     *)
(* loop that reads it (src/src/ui.rs).                                     *)
(*                                                                         *)
(* The specifications of this module:                                      *)
(*   SpecPct    - the pure function percentile on bounded sorted inputs    *)
(*   SpecTarget - TargetStats::add_ping_result / add_ssh_result called on  *)
(*                the target states of a Monitor, in any order             *)
(*   Spec       - the monitoring task, its probes, the snapshot mutex and  *)
(*                the presentation loop, interleaved                       *)
(*   SpecLive   - Spec without a bound on the number of cycles, with the   *)
(*                fairness of the runtime, for liveness                    *)
(*   SpecUi     - Spec with the key handlers of run_app and the App state  *)
(*   SpecTimer  - the two tokio intervals of a driver against a clock      *)
(*                                                                         *)
(* f64 values are modelled as exact rationals [num, den] in lowest terms;  *)
(* every latency the program stores is as_millis() as f64, an integer.     *)
(* A division by zero gives den = 0 (0/0 is NaN, x/0 is infinity).         *)
(* Option<T> is a sequence of length at most one: <<>> is None, <<x>> is   *)
(* Some(x).                                                                *)
(***************************************************************************)
EXTENDS Integers, Sequences, FiniteSets, TLC

VARIABLES
    history_size,    \* Config.history_size / Monitor.history_size
    targets,         \* Monitor.targets : Vec<TargetStats>
    inserted_ping,   \* SpecTarget: per target, every PingResult inserted so far
    inserted_ssh,    \* SpecTarget: per target, every SshResult inserted so far
    pct_sorted,      \* SpecPct: argument sorted_values of the last percentile call
    pct_p,           \* SpecPct: argument p of the last percentile call
    pct_result,      \* SpecPct: Option of the value the last call returned
    shared,          \* main: contents of Arc<Mutex<Vec<TargetStats>>>
    lock_holder,     \* the task holding the tokio Mutex, or "none"
    lock_queue,      \* tasks waiting for the Mutex, in arrival order
    mon_pc,          \* monitoring task: "select", "join", "lock", "lock_wait", "locked"
    cycle_kind,      \* the cycle the monitoring task is running: "none", "ping", "ssh"
    handles,         \* run_*_cycle: JoinHandles not yet awaited (target indices)
    probes,          \* per target, the spawned probe task: status and result
    ping_due,        \* interval.tick() is ready
    ssh_due,         \* ssh_interval.tick() is ready
    ui_pc,           \* run_app: "draw_lock", "draw_wait", "drawing", "poll", "exited"
    ui_view,         \* run_app: the target states the current draw has read
    cycles_started,  \* number of cycles begun
    cycles_done,     \* number of cycles whose run_*_cycle has returned
    published,       \* value of cycles_done at the last write of shared
    end_states,      \* Monitor.targets at start-up and at the end of each cycle
    completed,       \* the probes of the current cycle that have finished, in
                     \* the order they finished, each with what its handle yields
    cycle_limit,     \* Some(n): at most n cycles are started and the cycle
                     \* counters count; None: no limit, the counters stay 0
    ssh_outcomes,    \* SpecTarget: per target, what the network did to each
                     \* SSH probe whose result was inserted
    current_tab,     \* App.current_tab
    current_plot_view, \* App.current_plot_view
    tab_mode,        \* App.tab_mode
    ui_key,          \* the key press run_app is handling, "none" otherwise
    tm_pc,           \* SpecTimer: the driver is at "start", "running", "panicked"
    tm_driver,       \* "main" (monitoring_task) or "start_monitoring"
    overflow_checks, \* the build checks integer overflow (debug profile)
    ping_interval_ms, \* Config.ping_interval_ms, a u64
    now,             \* the runtime's clock, in ms since the driver started
    interval,        \* the ping timer: its period, its next deadline, and the
                     \* number of ticks it has delivered
    ssh_interval     \* the SSH timer, likewise

sysVars == <<shared, lock_holder, lock_queue, mon_pc, cycle_kind, handles,
             probes, ping_due, ssh_due, ui_pc, ui_view, cycles_started,
             cycles_done, published, end_states, completed, cycle_limit>>

appVars == <<current_tab, current_plot_view, tab_mode, ui_key>>

tmVars == <<tm_pc, tm_driver, overflow_checks, ping_interval_ms, now,
            interval, ssh_interval>>

vars == <<history_size, targets, inserted_ping, inserted_ssh, ssh_outcomes,
          pct_sorted, pct_p, pct_result, sysVars, appVars, tmVars>>

targetVars == <<history_size, targets, inserted_ping, inserted_ssh, ssh_outcomes>>
pctVars == <<pct_sorted, pct_p, pct_result>>

-----------------------------------------------------------------------------
(* Bounds *)

MaxTicks == 12       \* timer ticks delivered in SpecTimer
MaxLen == 4          \* longest sample list handed to percentile in SpecPct
MaxHistory == 3      \* history_size ranges over 0..MaxHistory
MaxInserts == 4      \* add_*_result calls in one behaviour of SpecTarget
MaxCycles == 2       \* cycles started in one behaviour of Spec
MaxSysHistory == 2   \* history_size ranges over 0..MaxSysHistory in Spec

SampleValues == {10, 20, 30, 40}
PingLatencies == {10, 20, 30}
SshTimes == {10, 30}
Percentiles == {25, 50, 75, 90, 95, 99}

-----------------------------------------------------------------------------
(* Option *)

None == <<>>
Some(x) == <<x>>
IsSome(o) == Len(o) = 1
Unwrap(o) == o[1]

-----------------------------------------------------------------------------
(* u64 and Duration: naturals of any size as sequences of 16-bit limbs,   *)
(* least significant first, without leading zero limbs (0 is <<>>)         *)

LimbBase == 65536

\* the limbs of a small natural
RECURSIVE Big(_)
Big(n) == IF n = 0 THEN <<>> ELSE <<n % LimbBase>> \o Big(n \div LimbBase)

RECURSIVE BigNorm(_)
BigNorm(a) ==
    IF a = <<>> THEN <<>>
    ELSE IF a[Len(a)] = 0 THEN BigNorm(SubSeq(a, 1, Len(a) - 1))
    ELSE a

RECURSIVE BigAddCarry(_, _, _)
BigAddCarry(a, b, carry) ==
    IF a = <<>> /\ b = <<>> THEN Big(carry)
    ELSE LET x == (IF a = <<>> THEN 0 ELSE Head(a))
                  + (IF b = <<>> THEN 0 ELSE Head(b)) + carry
         IN <<x % LimbBase>>
            \o BigAddCarry(IF a = <<>> THEN <<>> ELSE Tail(a),
                           IF b = <<>> THEN <<>> ELSE Tail(b),
                           x \div LimbBase)

\* a + b, exact
BigAdd(a, b) == BigNorm(BigAddCarry(a, b, 0))

RECURSIVE BigMulCarry(_, _, _)
BigMulCarry(a, k, carry) ==
    IF a = <<>> THEN Big(carry)
    ELSE LET x == Head(a) * k + carry
         IN <<x % LimbBase>> \o BigMulCarry(Tail(a), k, x \div LimbBase)

\* a * k for a small k, exact
BigMul(a, k) == BigNorm(BigMulCarry(a, k, 0))

\* a < b
RECURSIVE BigLess(_, _)
BigLess(a, b) ==
    IF Len(a) # Len(b) THEN Len(a) < Len(b)
    ELSE IF a = <<>> THEN FALSE
    ELSE IF a[Len(a)] # b[Len(b)] THEN a[Len(a)] < b[Len(b)]
    ELSE BigLess(BigNorm(SubSeq(a, 1, Len(a) - 1)),
                 BigNorm(SubSeq(b, 1, Len(b) - 1)))

BigLeq(a, b) == a = b \/ BigLess(a, b)

\* the number of limbs of a u64
U64Limbs == 4

\* a value fits a u64
FitsU64(a) == Len(a) <= U64Limbs

\* the value modulo 2^64
WrapU64(a) == IF FitsU64(a) THEN a ELSE BigNorm(SubSeq(a, 1, U64Limbs))

\* u64::MAX
U64Max == <<65535, 65535, 65535, 65535>>

\* u64::MAX / 5, the largest u64 whose product with 5 fits a u64
U64MaxFifth == <<13107, 13107, 13107, 13107>>

-----------------------------------------------------------------------------
(* f64 as exact rationals *)

RECURSIVE GCD(_, _)
GCD(a, b) == IF b = 0 THEN a ELSE GCD(b, a % b)

Abs(x) == IF x < 0 THEN -x ELSE x

Rat(n, d) ==
    IF d = 0 THEN [num |-> IF n = 0 THEN 0 ELSE 1, den |-> 0]
    ELSE LET g == GCD(Abs(n), Abs(d))
             s == IF d < 0 THEN -1 ELSE 1
         IN [num |-> s * (n \div g), den |-> s * (d \div g)]

FromInt(n) == [num |-> n, den |-> 1]
RatAdd(a, b) == Rat(a.num * b.den + b.num * a.den, a.den * b.den)
RatSub(a, b) == Rat(a.num * b.den - b.num * a.den, a.den * b.den)
RatMul(a, b) == Rat(a.num * b.num, a.den * b.den)
RatDiv(a, b) == Rat(a.num * b.den, a.den * b.num)
RatFloor(a) == a.num \div a.den
RatCeil(a) == -((-a.num) \div a.den)

-----------------------------------------------------------------------------
(* monitor.rs: statistics *)

RECURSIVE SumSeq(_)
SumSeq(s) == IF s = <<>> THEN 0 ELSE Head(s) + SumSeq(Tail(s))

RECURSIVE InsertSorted(_, _)
InsertSorted(x, s) ==
    IF s = <<>> THEN <<x>>
    ELSE IF x < Head(s) THEN <<x>> \o s
    ELSE <<Head(s)>> \o InsertSorted(x, Tail(s))

\* sorted_values.sort_by(partial_cmp): ascending, stable
RECURSIVE SortAsc(_)
SortAsc(s) ==
    IF s = <<>> THEN <<>>
    ELSE InsertSorted(s[Len(s)], SortAsc(SubSeq(s, 1, Len(s) - 1)))

percentile_swapped_weight(sorted_values, p) ==
    IF Len(sorted_values) = 0 THEN FromInt(0)
    ELSE IF Len(sorted_values) = 1 THEN FromInt(sorted_values[1])
    ELSE LET index == RatMul(RatDiv(FromInt(p), FromInt(100)),
                             FromInt(Len(sorted_values) - 1))
             lower == RatFloor(index)
             upper == RatCeil(index)
         IN IF lower = upper THEN FromInt(sorted_values[lower + 1])
            ELSE LET weight == RatSub(index, FromInt(lower))
                 IN RatAdd(RatMul(FromInt(sorted_values[lower + 1]), weight),
                           RatMul(FromInt(sorted_values[upper + 1]),
                                  RatSub(FromInt(1), weight)))

\* fn percentile(sorted_values: &[f64], p: f64) -> f64; indices are 0-based
\* in the source, sequences 1-based here
percentile(sorted_values, p) ==
    IF Len(sorted_values) = 0 THEN FromInt(0)
    ELSE IF Len(sorted_values) = 1 THEN FromInt(sorted_values[1])
    ELSE LET index == RatMul(RatDiv(FromInt(p), FromInt(100)),
                             FromInt(Len(sorted_values) - 1))
             lower == RatFloor(index)
             upper == RatCeil(index)
         IN IF lower = upper THEN FromInt(sorted_values[lower + 1])
            ELSE LET weight == RatSub(index, FromInt(lower))
                 IN RatAdd(RatMul(FromInt(sorted_values[lower + 1]),
                                  RatSub(FromInt(1), weight)),
                           RatMul(FromInt(sorted_values[upper + 1]), weight))

\* fn calculate_statistics(values: &[f64], total_count: usize) -> Statistics
calculate_statistics(values, total_count) ==
    LET sorted_values == SortAsc(values)
        mean == RatDiv(FromInt(SumSeq(values)), FromInt(Len(values)))
        median == percentile(sorted_values, 50)
        min == IF sorted_values = <<>> THEN FromInt(0)
               ELSE FromInt(sorted_values[1])
        max == IF sorted_values = <<>> THEN FromInt(0)
               ELSE FromInt(sorted_values[Len(sorted_values)])
        success_rate == RatMul(RatDiv(FromInt(Len(values)), FromInt(total_count)),
                               FromInt(100))
    IN [mean |-> mean, median |-> median, min |-> min, max |-> max,
        p25 |-> percentile(sorted_values, 25),
        p75 |-> percentile(sorted_values, 75),
        p90 |-> percentile(sorted_values, 90),
        p95 |-> percentile(sorted_values, 95),
        p99 |-> percentile(sorted_values, 99),
        success_rate |-> success_rate,
        total_count |-> total_count]

-----------------------------------------------------------------------------
(* config.rs: targets *)

\* struct Target { ip, name, ssh_port, ssh_user }
HostA == [ip |-> "10.0.0.1", name |-> Some("a"),
          ssh_port |-> Some(22), ssh_user |-> Some("root")]
HostB == [ip |-> "10.0.0.2", name |-> None,
          ssh_port |-> None, ssh_user |-> None]
HostD == [ip |-> "10.0.0.4", name |-> Some("d"),
          ssh_port |-> Some(2222), ssh_user |-> Some("ops")]
\* an address that does not parse, a port without a user
HostC == [ip |-> "not-an-ip", name |-> Some("c"),
          ssh_port |-> Some(22), ssh_user |-> None]
\* a user without a port
HostE == [ip |-> "10.0.0.3", name |-> None,
          ssh_port |-> None, ssh_user |-> Some("root")]

ValidIps == {"10.0.0.1", "10.0.0.2", "10.0.0.3", "10.0.0.4"}

\* target lists of SpecTarget: both targets take ping and SSH results
StatsConfigs == {<<HostA, HostD>>}

SshEligible_port_only(target) == IsSome(target.ssh_port)

\* run_ssh_cycle: ssh_port.is_some() && ssh_user.is_some()
SshEligible(target) == IsSome(target.ssh_port) /\ IsSome(target.ssh_user)

-----------------------------------------------------------------------------
(* monitor.rs: probe executors, as functions of what the network did *)

\* Config.ssh_timeout_ms, in the time unit of SshTimes
ssh_timeout_ms == 20

\* what the network does to one ping probe
PingNet == {[kind |-> "client_err", ms |-> 0], [kind |-> "ping_err", ms |-> 0]}
           \cup {[kind |-> "reply", ms |-> l] : l \in PingLatencies}

\* what the network does to one SSH probe that does not panic
SshNet == {[kind |-> "connect_err", ms |-> 0], [kind |-> "handshake_err", ms |-> 0]}
          \cup {[kind |-> "handshake_ok", ms |-> t] : t \in SshTimes}

ping_target_without_parse(ip, timestamp, net) ==
    IF net.kind = "reply"
    THEN [timestamp |-> timestamp, latency_ms |-> Some(net.ms), success |-> TRUE]
    ELSE [timestamp |-> timestamp, latency_ms |-> None, success |-> FALSE]

\* async fn ping_target(ip) -> PingResult
ping_target(ip, timestamp, net) ==
    IF ip \notin ValidIps
    THEN [timestamp |-> timestamp, latency_ms |-> None, success |-> FALSE]
    ELSE IF net.kind = "client_err"
    THEN [timestamp |-> timestamp, latency_ms |-> None, success |-> FALSE]
    ELSE IF net.kind = "reply"
    THEN [timestamp |-> timestamp, latency_ms |-> Some(net.ms), success |-> TRUE]
    ELSE [timestamp |-> timestamp, latency_ms |-> None, success |-> FALSE]

ssh_test_time_on_failure(timestamp, timeout, net) ==
    [timestamp |-> timestamp, connection_time_ms |-> Some(net.ms),
     success |-> net.kind = "handshake_ok"]

\* async fn ssh_test(ip, port, _user, timeout) -> SshResult.  The block given
\* to tokio::time::timeout has no await point (std::net::TcpStream::connect
\* and Session::handshake block), so it is Ready on its first poll and the
\* result is Ok(true) or Ok(false) whatever time has elapsed.
ssh_test(timestamp, timeout, net) ==
    IF net.kind = "handshake_ok"
    THEN [timestamp |-> timestamp, connection_time_ms |-> Some(net.ms),
          success |-> TRUE]
    ELSE [timestamp |-> timestamp, connection_time_ms |-> None,
          success |-> FALSE]

-----------------------------------------------------------------------------
(* monitor.rs: TargetStats *)

\* TargetStats::new
TargetStats_new(target, size) ==
    [target |-> target, ping_history |-> <<>>, ssh_history |-> <<>>,
     ping_stats |-> None, ssh_stats |-> None]

\* the failure log of a target state as the failure charts read it
\* (target.failure_log); TargetStats has no such field and nothing appends
\* to one
failure_log(target_stats) ==
    IF "failure_log" \in DOMAIN target_stats THEN target_stats.failure_log
    ELSE <<>>

\* VecDeque::pop_front: no effect on an empty deque
pop_front(q) == IF q = <<>> THEN q ELSE Tail(q)

\* .iter().filter_map(|r| r.latency_ms).collect()
RECURSIVE PingLatencyValues(_)
PingLatencyValues(h) ==
    IF h = <<>> THEN <<>>
    ELSE (IF IsSome(Head(h).latency_ms) THEN <<Unwrap(Head(h).latency_ms)>>
          ELSE <<>>) \o PingLatencyValues(Tail(h))

\* .iter().filter_map(|r| r.connection_time_ms).collect()
RECURSIVE SshTimeValues(_)
SshTimeValues(h) ==
    IF h = <<>> THEN <<>>
    ELSE (IF IsSome(Head(h).connection_time_ms)
          THEN <<Unwrap(Head(h).connection_time_ms)>>
          ELSE <<>>) \o SshTimeValues(Tail(h))

update_ping_stats_success_count(self) ==
    LET successful_pings == PingLatencyValues(self.ping_history)
    IN IF successful_pings # <<>>
       THEN [self EXCEPT !.ping_stats =
                Some(calculate_statistics(successful_pings, Len(successful_pings)))]
       ELSE self

update_ping_stats_reset(self) ==
    LET successful_pings == PingLatencyValues(self.ping_history)
    IN IF successful_pings # <<>>
       THEN [self EXCEPT !.ping_stats =
               Some(calculate_statistics(successful_pings, Len(self.ping_history)))]
       ELSE [self EXCEPT !.ping_stats = None]

update_ping_stats_unguarded(self) ==
    LET successful_pings == PingLatencyValues(self.ping_history)
    IN [self EXCEPT !.ping_stats =
            Some(calculate_statistics(successful_pings, Len(self.ping_history)))]

\* TargetStats::update_ping_stats
update_ping_stats(self) ==
    LET successful_pings == PingLatencyValues(self.ping_history)
    IN IF successful_pings # <<>>
       THEN [self EXCEPT !.ping_stats =
                Some(calculate_statistics(successful_pings, Len(self.ping_history)))]
       ELSE self

update_ssh_stats_unguarded(self) ==
    LET successful_ssh == SshTimeValues(self.ssh_history)
    IN [self EXCEPT !.ssh_stats =
            Some(calculate_statistics(successful_ssh, Len(self.ssh_history)))]

\* TargetStats::update_ssh_stats
update_ssh_stats(self) ==
    LET successful_ssh == SshTimeValues(self.ssh_history)
    IN IF successful_ssh # <<>>
       THEN [self EXCEPT !.ssh_stats =
                Some(calculate_statistics(successful_ssh, Len(self.ssh_history)))]
       ELSE self

add_ping_result_evict_newest(self, result, max_history) ==
    LET popped == IF Len(self.ping_history) >= max_history
                  THEN (IF self.ping_history = <<>> THEN <<>>
                        ELSE SubSeq(self.ping_history, 1, Len(self.ping_history) - 1))
                  ELSE self.ping_history
    IN update_ping_stats([self EXCEPT !.ping_history = Append(popped, result)])

add_ping_result_push_front(self, result, max_history) ==
    LET popped == IF Len(self.ping_history) >= max_history
                  THEN pop_front(self.ping_history)
                  ELSE self.ping_history
    IN update_ping_stats([self EXCEPT !.ping_history = <<result>> \o popped])

add_ping_result_stats_before_push(self, result, max_history) ==
    LET popped == IF Len(self.ping_history) >= max_history
                  THEN pop_front(self.ping_history)
                  ELSE self.ping_history
        updated == update_ping_stats([self EXCEPT !.ping_history = popped])
    IN [updated EXCEPT !.ping_history = Append(popped, result)]

\* TargetStats::add_ping_result
add_ping_result(self, result, max_history) ==
    LET popped == IF Len(self.ping_history) >= max_history
                  THEN pop_front(self.ping_history)
                  ELSE self.ping_history
    IN update_ping_stats([self EXCEPT !.ping_history = Append(popped, result)])

\* TargetStats::add_ssh_result
add_ssh_result(self, result, max_history) ==
    LET popped == IF Len(self.ssh_history) >= max_history
                  THEN pop_front(self.ssh_history)
                  ELSE self.ssh_history
    IN update_ssh_stats([self EXCEPT !.ssh_history = Append(popped, result)])

\* Monitor::new: one TargetStats per configured target, in order
Monitor_new(config_targets, size) ==
    [i \in 1..Len(config_targets) |-> TargetStats_new(config_targets[i], size)]

-----------------------------------------------------------------------------
(* SpecPct: percentile applied to bounded sorted sample lists *)

IsSortedAsc(s) == \A i \in 1..(Len(s) - 1) : s[i] <= s[i + 1]

SortedSamples ==
    {s \in UNION {[1..n -> SampleValues] : n \in 0..MaxLen} : IsSortedAsc(s)}

\* no driver has created its timers
NoInterval == [period |-> <<>>, deadline |-> <<>>, ticks |-> 0]

TimerIdle ==
    /\ tm_pc = "none"
    /\ tm_driver = "main"
    /\ overflow_checks = FALSE
    /\ ping_interval_ms = <<>>
    /\ now = <<>>
    /\ interval = NoInterval
    /\ ssh_interval = NoInterval

\* the monitoring task and the presentation loop are not running
SysIdle ==
    /\ shared = <<>>
    /\ lock_holder = "none"
    /\ lock_queue = <<>>
    /\ mon_pc = "select"
    /\ cycle_kind = "none"
    /\ handles = <<>>
    /\ probes = <<>>
    /\ ping_due = FALSE
    /\ ssh_due = FALSE
    /\ ui_pc = "exited"
    /\ ui_view = <<>>
    /\ cycles_started = 0
    /\ cycles_done = 0
    /\ published = 0
    /\ end_states = <<>>
    /\ completed = <<>>
    /\ cycle_limit = None
    /\ current_tab = 0
    /\ current_plot_view = "AllTargets"
    /\ tab_mode = [kind |-> "AllTargets", idx |-> 0]
    /\ ui_key = "none"

PctIdleTarget ==
    /\ history_size = 0
    /\ targets = <<>>
    /\ inserted_ping = <<>>
    /\ inserted_ssh = <<>>
    /\ ssh_outcomes = <<>>
    /\ SysIdle

InitPct ==
    /\ pct_sorted = <<>>
    /\ pct_p = 50
    /\ pct_result = None
    /\ PctIdleTarget
    /\ TimerIdle

CallPercentile ==
    \E s \in SortedSamples, p \in Percentiles :
        /\ pct_sorted' = s
        /\ pct_p' = p
        /\ pct_result' = Some(percentile(s, p))
        /\ UNCHANGED <<targetVars, sysVars, appVars, tmVars>>

NextPct == CallPercentile

SpecPct == InitPct /\ [][NextPct]_vars

-----------------------------------------------------------------------------
(* SpecTarget: inserts into the target states of one Monitor *)

NumInserts ==
    SumSeq([i \in 1..Len(targets) |-> Len(inserted_ping[i]) + Len(inserted_ssh[i])])

InitTarget ==
    /\ history_size \in 0..MaxHistory
    /\ \E cfg \in StatsConfigs :
          /\ targets = Monitor_new(cfg, history_size)
          /\ inserted_ping = [i \in 1..Len(cfg) |-> <<>>]
          /\ inserted_ssh = [i \in 1..Len(cfg) |-> <<>>]
          /\ ssh_outcomes = [i \in 1..Len(cfg) |-> <<>>]
    /\ pct_sorted = <<>>
    /\ pct_p = 50
    /\ pct_result = None
    /\ SysIdle
    /\ TimerIdle

\* target_stats.add_ping_result(result, self.history_size) with the result
\* of ping_target for target i; the timestamp is the probe's ordinal
AddPing(i, net) ==
    /\ NumInserts < MaxInserts
    /\ LET result == ping_target(targets[i].target.ip,
                                 Len(inserted_ping[i]) + 1, net)
       IN /\ targets' = [targets EXCEPT
                            ![i] = add_ping_result(@, result, history_size)]
          /\ inserted_ping' = [inserted_ping EXCEPT ![i] = Append(@, result)]
    /\ UNCHANGED <<history_size, inserted_ssh, ssh_outcomes>>
    /\ UNCHANGED <<pctVars, sysVars, appVars, tmVars>>

\* target_stats.add_ssh_result(result, self.history_size) with the result of
\* ssh_test for the SSH-eligible target i
AddSsh(i, net) ==
    /\ NumInserts < MaxInserts
    /\ SshEligible(targets[i].target)
    /\ LET result == ssh_test(Len(inserted_ssh[i]) + 1, ssh_timeout_ms, net)
       IN /\ targets' = [targets EXCEPT
                            ![i] = add_ssh_result(@, result, history_size)]
          /\ inserted_ssh' = [inserted_ssh EXCEPT ![i] = Append(@, result)]
          /\ ssh_outcomes' = [ssh_outcomes EXCEPT ![i] = Append(@, net)]
    /\ UNCHANGED <<history_size, inserted_ping>>
    /\ UNCHANGED <<pctVars, sysVars, appVars, tmVars>>

NextTarget ==
    \/ \E i \in 1..Len(targets), net \in PingNet : AddPing(i, net)
    \/ \E i \in 1..Len(targets), net \in SshNet : AddSsh(i, net)

SpecTarget == InitTarget /\ [][NextTarget]_vars

-----------------------------------------------------------------------------
(* Spec: the monitoring task (main.rs), its probes (monitor.rs), the       *)
(* snapshot Mutex and the presentation loop (ui.rs run_app)                *)

HostList == <<HostA, HostB>>

PartialList == <<HostC, HostE>>

\* target lists of Spec: an SSH target with a ping-only target, and two
\* targets with half of the SSH settings, one of them with a bad address
SysConfigs == {HostList, PartialList}

\* run_ping_cycle / run_ssh_cycle may start another cycle
CanStartCycle ==
    IF cycle_limit = None THEN TRUE ELSE cycles_started < Unwrap(cycle_limit)

\* the cycle counters advance only under a cycle limit
Count(c) == IF cycle_limit = None THEN c ELSE c + 1

\* what the network does to the probes of Spec
SysPingNet == {[kind |-> "client_err", ms |-> 0], [kind |-> "ping_err", ms |-> 0],
               [kind |-> "reply", ms |-> 10]}
SysSshNet == {[kind |-> "connect_err", ms |-> 0],
              [kind |-> "handshake_ok", ms |-> 10]}

\* a spawned probe task: the kind of probe it runs, how far it is, and the
\* value its JoinHandle yields
IdleProbe == [kind |-> "none", status |-> "idle", result |-> None]
RunningProbe(kind) == [kind |-> kind, status |-> "running", result |-> None]

Running == ui_pc # "exited"

\* tokio::sync::Mutex::lock: taken at once when free, otherwise the caller
\* joins the FIFO wait queue
LockFree_unguarded == TRUE

LockFree == lock_holder = "none"

ReleaseLock_no_handoff ==
    /\ lock_holder' = "none"
    /\ UNCHANGED lock_queue

\* dropping the guard hands the Mutex to the first waiter, if any
ReleaseLock ==
    IF lock_queue = <<>>
    THEN /\ lock_holder' = "none"
         /\ UNCHANGED lock_queue
    ELSE /\ lock_holder' = Head(lock_queue)
         /\ lock_queue' = Tail(lock_queue)

Start_empty_snapshot(limit, sizes, configs) ==
    /\ history_size \in sizes
    /\ \E cfg \in configs :
          /\ targets = Monitor_new(cfg, history_size)
          /\ probes = [i \in 1..Len(cfg) |-> IdleProbe]
    /\ shared = <<>>
    /\ end_states = <<targets>>
    /\ lock_holder = "none"
    /\ lock_queue = <<>>
    /\ mon_pc = "select"
    /\ cycle_kind = "none"
    /\ handles = <<>>
    /\ ping_due = TRUE
    /\ ssh_due = TRUE
    /\ ui_pc = "draw_lock"
    /\ ui_view = <<>>
    /\ cycles_started = 0
    /\ cycles_done = 0
    /\ published = 0
    /\ completed = <<>>
    /\ cycle_limit = limit
    /\ current_tab = 0
    /\ current_plot_view = "AllTargets"
    /\ tab_mode = [kind |-> "AllTargets", idx |-> 0]
    /\ ui_key = "none"
    /\ inserted_ping = <<>>
    /\ inserted_ssh = <<>>
    /\ ssh_outcomes = <<>>
    /\ pct_sorted = <<>>
    /\ pct_p = 50
    /\ pct_result = None
    /\ TimerIdle

\* main: Monitor::new, Arc::new(Mutex::new(monitor.get_targets().to_vec())),
\* the two tasks spawned; the first tick of a tokio interval is immediate;
\* App::new.  limit is the cycle limit, sizes the values of history_size,
\* configs the target lists
Start(limit, sizes, configs) ==
    /\ history_size \in sizes
    /\ \E cfg \in configs :
          /\ targets = Monitor_new(cfg, history_size)
          /\ probes = [i \in 1..Len(cfg) |-> IdleProbe]
    /\ shared = targets
    /\ end_states = <<targets>>
    /\ lock_holder = "none"
    /\ lock_queue = <<>>
    /\ mon_pc = "select"
    /\ cycle_kind = "none"
    /\ handles = <<>>
    /\ ping_due = TRUE
    /\ ssh_due = TRUE
    /\ ui_pc = "draw_lock"
    /\ ui_view = <<>>
    /\ cycles_started = 0
    /\ cycles_done = 0
    /\ published = 0
    /\ completed = <<>>
    /\ cycle_limit = limit
    /\ current_tab = 0
    /\ current_plot_view = "AllTargets"
    /\ tab_mode = [kind |-> "AllTargets", idx |-> 0]
    /\ ui_key = "none"
    /\ inserted_ping = <<>>
    /\ inserted_ssh = <<>>
    /\ ssh_outcomes = <<>>
    /\ pct_sorted = <<>>
    /\ pct_p = 50
    /\ pct_result = None
    /\ TimerIdle

Init == Start(Some(MaxCycles), 0..MaxSysHistory, SysConfigs)

NotSys == <<inserted_ping, inserted_ssh, ssh_outcomes, pctVars, cycle_limit,
            appVars, tmVars>>

\* the ping timer's next deadline passes
TickPing ==
    /\ Running
    /\ ~ping_due
    /\ ping_due' = TRUE
    /\ UNCHANGED <<completed, history_size, targets, NotSys, shared, lock_holder,
                   lock_queue, mon_pc, cycle_kind, handles, probes, ssh_due,
                   ui_pc, ui_view, cycles_started, cycles_done, published,
                   end_states>>

\* the SSH timer's next deadline passes
TickSsh ==
    /\ Running
    /\ ~ssh_due
    /\ ssh_due' = TRUE
    /\ UNCHANGED <<completed, history_size, targets, NotSys, shared, lock_holder,
                   lock_queue, mon_pc, cycle_kind, handles, probes, ping_due,
                   ui_pc, ui_view, cycles_started, cycles_done, published,
                   end_states>>

\* the targets run_ssh_cycle spawns a probe for, in index order
RECURSIVE EligibleFrom(_, _)
EligibleFrom(ts, i) ==
    IF i > Len(ts) THEN <<>>
    ELSE (IF SshEligible(ts[i].target) THEN <<i>> ELSE <<>>)
         \o EligibleFrom(ts, i + 1)

AllFrom(ts) == [i \in 1..Len(ts) |-> i]

\* run_ping_cycle, the spawn loop: one ping_target task per target
PingCycleStart ==
    /\ CanStartCycle
    /\ cycle_kind' = "ping"
    /\ handles' = AllFrom(targets)
    /\ probes' = [i \in DOMAIN probes |-> RunningProbe("ping")]
    /\ mon_pc' = "join"
    /\ cycles_started' = Count(cycles_started)
    /\ completed' = <<>>

SshCycleStart_all_targets ==
    /\ CanStartCycle
    /\ cycle_kind' = "ssh"
    /\ handles' = AllFrom(targets)
    /\ probes' = [i \in DOMAIN probes |-> RunningProbe("ssh")]
    /\ mon_pc' = "join"
    /\ cycles_started' = Count(cycles_started)
    /\ completed' = <<>>

\* run_ssh_cycle, the spawn loop: one ssh_test task per SSH-eligible target
SshCycleStart ==
    /\ CanStartCycle
    /\ cycle_kind' = "ssh"
    /\ handles' = EligibleFrom(targets, 1)
    /\ probes' = [i \in DOMAIN probes |->
                    IF SshEligible(targets[i].target) THEN RunningProbe("ssh")
                    ELSE probes[i]]
    /\ mon_pc' = "join"
    /\ cycles_started' = Count(cycles_started)
    /\ completed' = <<>>

\* select! at the top of the loop takes the interval.tick() branch and calls
\* monitor.run_ping_cycle()
SelectPing ==
    /\ Running
    /\ mon_pc = "select"
    /\ ping_due
    /\ ping_due' = FALSE
    /\ PingCycleStart
    /\ UNCHANGED <<history_size, targets, NotSys, shared, lock_holder,
                   lock_queue, ssh_due, ui_pc, ui_view, cycles_done,
                   published, end_states>>

SelectSsh_while_running ==
    /\ Running
    /\ ssh_due
    /\ ssh_due' = FALSE
    /\ SshCycleStart
    /\ UNCHANGED <<history_size, targets, NotSys, shared, lock_holder,
                   lock_queue, ping_due, ui_pc, ui_view, cycles_done,
                   published, end_states>>

\* select! at the top of the loop takes the ssh_interval.tick() branch and
\* calls monitor.run_ssh_cycle()
SelectSsh ==
    /\ Running
    /\ mon_pc = "select"
    /\ ssh_due
    /\ ssh_due' = FALSE
    /\ SshCycleStart
    /\ UNCHANGED <<history_size, targets, NotSys, shared, lock_holder,
                   lock_queue, ping_due, ui_pc, ui_view, cycles_done,
                   published, end_states>>

\* the ping_target task of target i finishes; its timestamp is the cycle's
PingProbeDone(i, net) ==
    /\ Running
    /\ probes[i].kind = "ping"
    /\ probes[i].status = "running"
    /\ probes' = [probes EXCEPT ![i] =
                    [kind |-> "ping", status |-> "done",
                     result |-> Some(ping_target(targets[i].target.ip,
                                                 cycles_started, net))]]
    /\ completed' = Append(completed, [index |-> i, result |-> probes'[i].result])
    /\ UNCHANGED <<history_size, targets, NotSys, shared, lock_holder,
                   lock_queue, mon_pc, cycle_kind, handles, ping_due, ssh_due,
                   ui_pc, ui_view, cycles_started, cycles_done, published,
                   end_states>>

\* the ssh_test task of target i finishes
SshProbeDone(i, net) ==
    /\ Running
    /\ probes[i].kind = "ssh"
    /\ probes[i].status = "running"
    /\ probes' = [probes EXCEPT ![i] =
                    [kind |-> "ssh", status |-> "done",
                     result |-> Some(ssh_test(cycles_started, ssh_timeout_ms, net))]]
    /\ completed' = Append(completed, [index |-> i, result |-> probes'[i].result])
    /\ UNCHANGED <<history_size, targets, NotSys, shared, lock_holder,
                   lock_queue, mon_pc, cycle_kind, handles, ping_due, ssh_due,
                   ui_pc, ui_view, cycles_started, cycles_done, published,
                   end_states>>

\* the ssh_test task of target i panics (ssh2::Session::new().unwrap())
SshProbePanic(i) ==
    /\ Running
    /\ probes[i].kind = "ssh"
    /\ probes[i].status = "running"
    /\ probes' = [probes EXCEPT ![i] = [kind |-> "ssh", status |-> "panicked", result |-> None]]
    /\ completed' = Append(completed, [index |-> i, result |-> None])
    /\ UNCHANGED <<history_size, targets, NotSys, shared, lock_holder,
                   lock_queue, mon_pc, cycle_kind, handles, ping_due, ssh_due,
                   ui_pc, ui_view, cycles_started, cycles_done, published,
                   end_states>>

\* the peer of target i's ssh_test accepts the connection and stays silent:
\* Session::handshake blocks without limit (no session timeout is set and
\* tokio::time::timeout cannot interrupt the blocking call), the task never
\* finishes
SshProbeBlock(i) ==
    /\ Running
    /\ probes[i].kind = "ssh"
    /\ probes[i].status = "running"
    /\ probes' = [probes EXCEPT ![i] = [kind |-> "ssh", status |-> "blocked", result |-> None]]
    /\ UNCHANGED <<completed, history_size, targets, NotSys, shared, lock_holder,
                   lock_queue, mon_pc, cycle_kind, handles, ping_due, ssh_due,
                   ui_pc, ui_view, cycles_started, cycles_done, published,
                   end_states>>

JoinNext_route_swapped ==
    /\ Running
    /\ mon_pc = "join"
    /\ handles # <<>>
    /\ LET index == Head(handles)
           slot == Len(targets) + 1 - index
       IN /\ probes[index].status \in {"done", "panicked"}
          /\ targets' =
                IF probes[index].status = "panicked" THEN targets
                ELSE IF cycle_kind = "ping"
                THEN [targets EXCEPT ![slot] =
                        add_ping_result(@, Unwrap(probes[index].result), history_size)]
                ELSE [targets EXCEPT ![slot] =
                        add_ssh_result(@, Unwrap(probes[index].result), history_size)]
          /\ probes' = [probes EXCEPT ![index] = IdleProbe]
    /\ handles' = Tail(handles)
    /\ UNCHANGED <<completed, history_size, NotSys, shared, lock_holder, lock_queue,
                   mon_pc, cycle_kind, ping_due, ssh_due, ui_pc, ui_view,
                   cycles_started, cycles_done, published, end_states>>

JoinNext_records_panic ==
    /\ Running
    /\ mon_pc = "join"
    /\ handles # <<>>
    /\ LET index == Head(handles)
           result == IF probes[index].status = "panicked"
                     THEN [timestamp |-> cycles_started,
                           connection_time_ms |-> None, success |-> FALSE]
                     ELSE Unwrap(probes[index].result)
       IN /\ probes[index].status \in {"done", "panicked"}
          /\ targets' =
                IF cycle_kind = "ping"
                THEN [targets EXCEPT ![index] =
                        add_ping_result(@, result, history_size)]
                ELSE [targets EXCEPT ![index] =
                        add_ssh_result(@, result, history_size)]
          /\ probes' = [probes EXCEPT ![index] = IdleProbe]
    /\ handles' = Tail(handles)
    /\ UNCHANGED <<completed, history_size, NotSys, shared, lock_holder, lock_queue,
                   mon_pc, cycle_kind, ping_due, ssh_due, ui_pc, ui_view,
                   cycles_started, cycles_done, published, end_states>>

JoinNext_retry_failed ==
    /\ Running
    /\ mon_pc = "join"
    /\ handles # <<>>
    /\ LET index == Head(handles)
           retry == /\ probes[index].status = "done"
                    /\ ~Unwrap(probes[index].result).success
       IN /\ probes[index].status \in {"done", "panicked"}
          /\ targets' =
                IF probes[index].status = "panicked" \/ retry THEN targets
                ELSE IF cycle_kind = "ping"
                THEN [targets EXCEPT ![index] =
                        add_ping_result(@, Unwrap(probes[index].result), history_size)]
                ELSE [targets EXCEPT ![index] =
                        add_ssh_result(@, Unwrap(probes[index].result), history_size)]
          /\ probes' = [probes EXCEPT ![index] =
                          IF retry THEN RunningProbe(cycle_kind) ELSE IdleProbe]
          /\ handles' = IF retry THEN handles ELSE Tail(handles)
    /\ UNCHANGED <<completed, history_size, NotSys, shared, lock_holder, lock_queue,
                   mon_pc, cycle_kind, ping_due, ssh_due, ui_pc, ui_view,
                   cycles_started, cycles_done, published, end_states>>

JoinNext_stop_on_failure ==
    /\ Running
    /\ mon_pc = "join"
    /\ handles # <<>>
    /\ LET index == Head(handles)
           failed == \/ probes[index].status = "panicked"
                     \/ ~Unwrap(probes[index].result).success
       IN /\ probes[index].status \in {"done", "panicked"}
          /\ targets' =
                IF failed THEN targets
                ELSE IF cycle_kind = "ping"
                THEN [targets EXCEPT ![index] =
                        add_ping_result(@, Unwrap(probes[index].result), history_size)]
                ELSE [targets EXCEPT ![index] =
                        add_ssh_result(@, Unwrap(probes[index].result), history_size)]
          /\ probes' = [probes EXCEPT ![index] = IdleProbe]
          /\ handles' = IF failed THEN <<>> ELSE Tail(handles)
    /\ UNCHANGED <<completed, history_size, NotSys, shared, lock_holder, lock_queue,
                   mon_pc, cycle_kind, ping_due, ssh_due, ui_pc, ui_view,
                   cycles_started, cycles_done, published, end_states>>

\* for handle in handles { if let Ok((index, result)) = handle.await {...} }:
\* the next handle in spawn order is ready; an Err (panicked task) is skipped
JoinNext ==
    /\ Running
    /\ mon_pc = "join"
    /\ handles # <<>>
    /\ LET index == Head(handles)
       IN /\ probes[index].status \in {"done", "panicked"}
          /\ targets' =
                IF probes[index].status = "panicked" THEN targets
                ELSE IF cycle_kind = "ping"
                THEN [targets EXCEPT ![index] =
                        add_ping_result(@, Unwrap(probes[index].result), history_size)]
                ELSE [targets EXCEPT ![index] =
                        add_ssh_result(@, Unwrap(probes[index].result), history_size)]
          /\ probes' = [probes EXCEPT ![index] = IdleProbe]
    /\ handles' = Tail(handles)
    /\ UNCHANGED <<completed, history_size, NotSys, shared, lock_holder, lock_queue,
                   mon_pc, cycle_kind, ping_due, ssh_due, ui_pc, ui_view,
                   cycles_started, cycles_done, published, end_states>>

CycleReturn_before_join ==
    /\ Running
    /\ mon_pc = "join"
    /\ mon_pc' = "lock"
    /\ cycles_done' = Count(cycles_done)
    /\ end_states' = IF cycle_limit = None THEN end_states
                     ELSE Append(end_states, targets)
    /\ UNCHANGED <<completed, history_size, targets, NotSys, shared, lock_holder,
                   lock_queue, cycle_kind, handles, probes, ping_due, ssh_due,
                   ui_pc, ui_view, cycles_started, published>>

\* every handle has been awaited: run_*_cycle returns Ok(()) and the task
\* goes on to targets_clone.lock()
CycleReturn ==
    /\ Running
    /\ mon_pc = "join"
    /\ handles = <<>>
    /\ mon_pc' = "lock"
    /\ cycles_done' = Count(cycles_done)
    /\ end_states' = IF cycle_limit = None THEN end_states
                     ELSE Append(end_states, targets)
    /\ UNCHANGED <<completed, history_size, targets, NotSys, shared, lock_holder,
                   lock_queue, cycle_kind, handles, probes, ping_due, ssh_due,
                   ui_pc, ui_view, cycles_started, published>>

\* let mut targets_guard = targets_clone.lock().await
MonLock ==
    /\ Running
    /\ mon_pc = "lock"
    /\ IF LockFree
       THEN /\ lock_holder' = "monitor"
            /\ mon_pc' = "locked"
            /\ UNCHANGED lock_queue
       ELSE /\ lock_queue' = Append(lock_queue, "monitor")
            /\ mon_pc' = "lock_wait"
            /\ UNCHANGED lock_holder
    /\ UNCHANGED <<completed, history_size, targets, NotSys, shared, cycle_kind, handles,
                   probes, ping_due, ssh_due, ui_pc, ui_view, cycles_started,
                   cycles_done, published, end_states>>

\* the waiting lock() future is woken with the Mutex handed to it
MonWake ==
    /\ Running
    /\ mon_pc = "lock_wait"
    /\ lock_holder = "monitor"
    /\ mon_pc' = "locked"
    /\ UNCHANGED <<completed, history_size, targets, NotSys, shared, lock_holder,
                   lock_queue, cycle_kind, handles, probes, ping_due, ssh_due,
                   ui_pc, ui_view, cycles_started, cycles_done, published,
                   end_states>>

Publish_probed_only ==
    /\ Running
    /\ mon_pc = "locked"
    /\ shared' = IF cycle_kind = "ping" THEN targets
                 ELSE SelectSeq(targets, LAMBDA t : SshEligible(t.target))
    /\ published' = cycles_done
    /\ completed' = <<>>
    /\ ReleaseLock
    /\ mon_pc' = "select"
    /\ cycle_kind' = "none"
    /\ UNCHANGED <<history_size, targets, NotSys, handles, probes, ping_due,
                   ssh_due, ui_pc, ui_view, cycles_started, cycles_done,
                   end_states>>

Publish_ping_only ==
    /\ Running
    /\ mon_pc = "locked"
    /\ shared' = IF cycle_kind = "ping" THEN targets ELSE shared
    /\ published' = cycles_done
    /\ completed' = <<>>
    /\ ReleaseLock
    /\ mon_pc' = "select"
    /\ cycle_kind' = "none"
    /\ UNCHANGED <<history_size, targets, NotSys, handles, probes, ping_due,
                   ssh_due, ui_pc, ui_view, cycles_started, cycles_done,
                   end_states>>

Publish_previous ==
    /\ Running
    /\ mon_pc = "locked"
    /\ shared' = end_states[cycles_done]
    /\ published' = cycles_done
    /\ completed' = <<>>
    /\ ReleaseLock
    /\ mon_pc' = "select"
    /\ cycle_kind' = "none"
    /\ UNCHANGED <<history_size, targets, NotSys, handles, probes, ping_due,
                   ssh_due, ui_pc, ui_view, cycles_started, cycles_done,
                   end_states>>

\* *targets_guard = monitor.get_targets().to_vec(); the guard is dropped at
\* the end of the select! branch and the loop returns to select!
Publish ==
    /\ Running
    /\ mon_pc = "locked"
    /\ shared' = targets
    /\ published' = cycles_done
    /\ completed' = <<>>
    /\ ReleaseLock
    /\ mon_pc' = "select"
    /\ cycle_kind' = "none"
    /\ UNCHANGED <<history_size, targets, NotSys, handles, probes, ping_due,
                   ssh_due, ui_pc, ui_view, cycles_started, cycles_done,
                   end_states>>

\* run_app: let targets = app.targets.lock().await
UiLock ==
    /\ ui_pc = "draw_lock"
    /\ IF LockFree
       THEN /\ lock_holder' = "ui"
            /\ ui_pc' = "drawing"
            /\ UNCHANGED lock_queue
       ELSE /\ lock_queue' = Append(lock_queue, "ui")
            /\ ui_pc' = "draw_wait"
            /\ UNCHANGED lock_holder
    /\ UNCHANGED <<completed, history_size, targets, NotSys, shared, mon_pc, cycle_kind,
                   handles, probes, ping_due, ssh_due, ui_view, cycles_started,
                   cycles_done, published, end_states>>

\* the waiting lock() future is woken with the Mutex handed to it
UiWake ==
    /\ ui_pc = "draw_wait"
    /\ lock_holder = "ui"
    /\ ui_pc' = "drawing"
    /\ UNCHANGED <<completed, history_size, targets, NotSys, shared, lock_holder,
                   lock_queue, mon_pc, cycle_kind, handles, probes, ping_due,
                   ssh_due, ui_view, cycles_started, cycles_done, published,
                   end_states>>

\* terminal.draw(|f| ui(f, app, &targets)): the renderers read the target
\* states through the guard, one target after the other
UiDrawRead ==
    /\ ui_pc = "drawing"
    /\ Len(ui_view) < Len(shared)
    /\ ui_view' = Append(ui_view, shared[Len(ui_view) + 1])
    /\ UNCHANGED <<completed, history_size, targets, NotSys, shared, lock_holder,
                   lock_queue, mon_pc, cycle_kind, handles, probes, ping_due,
                   ssh_due, ui_pc, cycles_started, cycles_done, published,
                   end_states>>

UiDrop_keeps_guard ==
    /\ ui_pc = "drawing"
    /\ Len(ui_view) = Len(shared)
    /\ ui_view' = <<>>
    /\ ui_pc' = "poll"
    /\ UNCHANGED <<completed, history_size, targets, NotSys, shared, mon_pc, cycle_kind,
                   handles, probes, ping_due, ssh_due, cycles_started,
                   cycles_done, published, end_states, lock_holder, lock_queue>>

\* drop(targets) after the frame has been drawn
UiDrop ==
    /\ ui_pc = "drawing"
    /\ Len(ui_view) = Len(shared)
    /\ ReleaseLock
    /\ ui_view' = <<>>
    /\ ui_pc' = "poll"
    /\ UNCHANGED <<completed, history_size, targets, NotSys, shared, mon_pc, cycle_kind,
                   handles, probes, ping_due, ssh_due, cycles_started,
                   cycles_done, published, end_states>>

\* event::poll(100ms) times out, or the event leaves should_quit false:
\* the loop draws again
UiPollContinue ==
    /\ ui_pc = "poll"
    /\ ui_pc' = "draw_lock"
    /\ UNCHANGED <<completed, history_size, targets, NotSys, shared, lock_holder,
                   lock_queue, mon_pc, cycle_kind, handles, probes, ping_due,
                   ssh_due, ui_view, cycles_started, cycles_done, published,
                   end_states>>

\* KeyCode::Char('q'): should_quit, break; run_ui returns, ui_task ends and
\* main's select! returns: no driver, timer or probe makes a step any more
UiQuit ==
    /\ ui_pc = "poll"
    /\ ui_pc' = "exited"
    /\ UNCHANGED <<completed, history_size, targets, NotSys, shared, lock_holder,
                   lock_queue, mon_pc, cycle_kind, handles, probes, ping_due,
                   ssh_due, ui_view, cycles_started, cycles_done, published,
                   end_states>>

Next ==
    \/ TickPing
    \/ TickSsh
    \/ SelectPing
    \/ SelectSsh
    \/ \E i \in DOMAIN probes, net \in SysPingNet : PingProbeDone(i, net)
    \/ \E i \in DOMAIN probes, net \in SysSshNet : SshProbeDone(i, net)
    \/ \E i \in DOMAIN probes : SshProbePanic(i)
    \/ \E i \in DOMAIN probes : SshProbeBlock(i)
    \/ JoinNext
    \/ CycleReturn
    \/ MonLock
    \/ MonWake
    \/ Publish
    \/ UiLock
    \/ UiWake
    \/ UiDrawRead
    \/ UiDrop
    \/ UiPollContinue
    \/ UiQuit

Spec == Init /\ [][Next]_vars

-----------------------------------------------------------------------------
(* SpecLive: the two tasks without a bound on the number of cycles, under   *)
(* the fairness of the runtime: a due timer fires, a task that can run      *)
(* runs, a finished handle is joined, a free or handed-over Mutex is        *)
(* taken, a frame being drawn is finished and its guard dropped.  select!   *)
(* polls its ready branches in random order, so a branch that is ready      *)
(* again and again is taken (strong fairness).  A ping answers or fails     *)
(* within the pinger's own timeout; an SSH probe that is not blocked        *)
(* returns.  The presentation loop draws again when its poll times out;    *)
(* the user may or may not press 'q'.                                      *)

\* the target list of SpecLive: one target, pinged and SSH-probed
LiveConfigs == {<<HostA>>}

InitLive == Start(None, {1}, LiveConfigs)

ProbeReturns ==
    \/ \E i \in DOMAIN probes, net \in SysPingNet : PingProbeDone(i, net)
    \/ \E i \in DOMAIN probes, net \in SysSshNet : SshProbeDone(i, net)
    \/ \E i \in DOMAIN probes : SshProbePanic(i)

Fairness ==
    /\ WF_vars(TickPing)
    /\ WF_vars(TickSsh)
    /\ SF_vars(SelectPing)
    /\ SF_vars(SelectSsh)
    /\ WF_vars(ProbeReturns)
    /\ WF_vars(JoinNext)
    /\ WF_vars(CycleReturn)
    /\ WF_vars(MonLock)
    /\ WF_vars(MonWake)
    /\ WF_vars(Publish)
    /\ WF_vars(UiLock)
    /\ WF_vars(UiWake)
    /\ WF_vars(UiDrawRead)
    /\ WF_vars(UiDrop)
    /\ WF_vars(UiPollContinue)

SpecLive == InitLive /\ [][Next]_vars /\ Fairness

-----------------------------------------------------------------------------
(* SpecPair: the system with two targets that both take SSH probes, so    *)
(* that one worker task of an SSH cycle can end abnormally while the      *)
(* other returns.                                                         *)

InitPair == Start(Some(MaxCycles), {2}, StatsConfigs)

SpecPair == InitPair /\ [][Next]_vars

-----------------------------------------------------------------------------
(* SpecTimer: the two timers of a driver.  The cycles are shorter than the *)
(* ping period: every tick that is due is taken before the clock moves on. *)

\* the values of Config.ping_interval_ms
PeriodSamples ==
    {Big(0), Big(1), Big(2), Big(3), U64MaxFifth, BigAdd(U64MaxFifth, Big(1)),
     U64Max}

\* the timer is ready: its deadline has passed
Due(timer) == BigLeq(timer.deadline, now)

\* tokio::time::interval(period): the first tick completes immediately
tokio_interval(period) == [period |-> period, deadline |-> now, ticks |-> 0]

\* Interval::tick() returns: the next deadline is one period after this one
Tick(timer) ==
    [period |-> timer.period, deadline |-> BigAdd(timer.deadline, timer.period),
     ticks |-> timer.ticks + 1]

InitTimer ==
    /\ tm_pc = "start"
    /\ tm_driver \in {"main", "start_monitoring"}
    /\ overflow_checks \in BOOLEAN
    /\ ping_interval_ms \in PeriodSamples
    /\ now = <<>>
    /\ interval = NoInterval
    /\ ssh_interval = NoInterval
    /\ pct_sorted = <<>>
    /\ pct_p = 50
    /\ pct_result = None
    /\ PctIdleTarget

\* main, monitoring_task: interval(from_millis(config.ping_interval_ms)) and
\* interval(from_millis(config.ping_interval_ms * 5)); the product is a u64:
\* on overflow it panics in a build with overflow checks and wraps in one
\* without; interval panics on a zero period
MainDriverStart ==
    /\ tm_pc = "start"
    /\ tm_driver = "main"
    /\ LET product == BigMul(ping_interval_ms, 5)
       IN IF \/ ping_interval_ms = <<>>
             \/ ~FitsU64(product) /\ overflow_checks
          THEN /\ tm_pc' = "panicked"
               /\ UNCHANGED <<interval, ssh_interval>>
          ELSE /\ tm_pc' = "running"
               /\ interval' = tokio_interval(ping_interval_ms)
               /\ ssh_interval' = tokio_interval(WrapU64(product))
    /\ UNCHANGED <<tm_driver, overflow_checks, ping_interval_ms, now>>
    /\ UNCHANGED <<targetVars, pctVars, sysVars, appVars>>

\* Monitor::start_monitoring: interval(self.ping_interval) and
\* interval(self.ping_interval * 5), a Duration times a u32, which cannot
\* overflow for a Duration made from u64 milliseconds
MonitorDriverStart ==
    /\ tm_pc = "start"
    /\ tm_driver = "start_monitoring"
    /\ IF ping_interval_ms = <<>>
       THEN /\ tm_pc' = "panicked"
            /\ UNCHANGED <<interval, ssh_interval>>
       ELSE /\ tm_pc' = "running"
            /\ interval' = tokio_interval(ping_interval_ms)
            /\ ssh_interval' = tokio_interval(BigMul(ping_interval_ms, 5))
    /\ UNCHANGED <<tm_driver, overflow_checks, ping_interval_ms, now>>
    /\ UNCHANGED <<targetVars, pctVars, sysVars, appVars>>

TicksLeft == interval.ticks + ssh_interval.ticks < MaxTicks

\* select! takes the ping timer's tick
TimerPingTick ==
    /\ tm_pc = "running"
    /\ TicksLeft
    /\ Due(interval)
    /\ interval' = Tick(interval)
    /\ UNCHANGED <<tm_pc, tm_driver, overflow_checks, ping_interval_ms, now,
                   ssh_interval>>
    /\ UNCHANGED <<targetVars, pctVars, sysVars, appVars>>

\* select! takes the SSH timer's tick
TimerSshTick ==
    /\ tm_pc = "running"
    /\ TicksLeft
    /\ Due(ssh_interval)
    /\ ssh_interval' = Tick(ssh_interval)
    /\ UNCHANGED <<tm_pc, tm_driver, overflow_checks, ping_interval_ms, now,
                   interval>>
    /\ UNCHANGED <<targetVars, pctVars, sysVars, appVars>>

\* no timer is ready: the task sleeps until the earlier deadline
TimerSleep ==
    /\ tm_pc = "running"
    /\ TicksLeft
    /\ ~Due(interval)
    /\ ~Due(ssh_interval)
    /\ now' = IF BigLess(interval.deadline, ssh_interval.deadline)
              THEN interval.deadline ELSE ssh_interval.deadline
    /\ UNCHANGED <<tm_pc, tm_driver, overflow_checks, ping_interval_ms,
                   interval, ssh_interval>>
    /\ UNCHANGED <<targetVars, pctVars, sysVars, appVars>>

NextTimer ==
    \/ MainDriverStart
    \/ MonitorDriverStart
    \/ TimerPingTick
    \/ TimerSshTick
    \/ TimerSleep

SpecTimer == InitTimer /\ [][NextTimer]_vars

-----------------------------------------------------------------------------
(* ui.rs: App and the key handlers of run_app *)

\* App::update_tab_mode
update_tab_mode(tab) ==
    IF tab = 0 THEN [kind |-> "AllTargets", idx |-> 0]
    ELSE [kind |-> "Individual", idx |-> tab - 1]

\* App::next_tab: the new current_tab
next_tab(tab, max_tabs) == (tab + 1) % (max_tabs + 1)

previous_tab_wrap_to_total(tab, max_tabs) ==
    IF tab > 0 THEN tab - 1 ELSE max_tabs + 1

\* App::previous_tab: the new current_tab
previous_tab(tab, max_tabs) ==
    IF tab > 0 THEN tab - 1 ELSE (max_tabs + 1) - 1

next_plot_view_ignores_ssh(view, ssh) ==
    IF view = "AllTargets" THEN "PingOnly"
    ELSE IF view = "PingOnly" THEN "SshOnly"
    ELSE "AllTargets"

\* App::next_plot_view: the new current_plot_view
next_plot_view(view, ssh) ==
    IF view = "AllTargets" THEN "PingOnly"
    ELSE IF view = "PingOnly"
    THEN (IF ssh THEN "SshOnly" ELSE "AllTargets")
    ELSE "AllTargets"

\* run_app, KeyCode::Char('p'): has_ssh, read through the guard
has_ssh(guard, mode) ==
    IF mode.kind = "AllTargets"
    THEN \E k \in 1..Len(guard) : IsSome(guard[k].target.ssh_port)
    ELSE IF mode.idx + 1 <= Len(guard)
    THEN IsSome(guard[mode.idx + 1].target.ssh_port)
    ELSE FALSE

\* render_statistics: let has_ssh = target.target.ssh_port.is_some(); the
\* SSH statistics pane is laid out and drawn exactly when it is true
render_statistics_has_ssh(target_stats) == IsSome(target_stats.target.ssh_port)

\* the keys whose handlers take the lock
LockingKeys == {"Tab", "BackTab", "p"}

\* event::poll returns a press of Tab, BackTab or 'p': the handler calls
\* app.targets.lock().await
UiKey(key) ==
    /\ ui_pc = "poll"
    /\ ui_key' = key
    /\ IF LockFree
       THEN /\ lock_holder' = "ui"
            /\ ui_pc' = "key_locked"
            /\ UNCHANGED lock_queue
       ELSE /\ lock_queue' = Append(lock_queue, "ui")
            /\ ui_pc' = "key_wait"
            /\ UNCHANGED lock_holder
    /\ UNCHANGED <<current_tab, current_plot_view, tab_mode>>
    /\ UNCHANGED <<completed, history_size, targets, inserted_ping, inserted_ssh,
                   ssh_outcomes, pctVars, tmVars, cycle_limit, shared, mon_pc,
                   cycle_kind, handles, probes, ping_due, ssh_due, ui_view,
                   cycles_started, cycles_done, published, end_states>>

\* the handler's waiting lock() future is woken with the Mutex handed to it
UiKeyWake ==
    /\ ui_pc = "key_wait"
    /\ lock_holder = "ui"
    /\ ui_pc' = "key_locked"
    /\ UNCHANGED appVars
    /\ UNCHANGED <<completed, history_size, targets, inserted_ping, inserted_ssh,
                   ssh_outcomes, pctVars, tmVars, cycle_limit, shared, lock_holder,
                   lock_queue, mon_pc, cycle_kind, handles, probes, ping_due,
                   ssh_due, ui_view, cycles_started, cycles_done, published,
                   end_states>>

UiKeyHandle_writes_guard ==
    /\ ui_pc = "key_locked"
    /\ current_tab' =
          IF ui_key = "Tab" THEN next_tab(current_tab, Len(shared))
          ELSE IF ui_key = "BackTab" THEN previous_tab(current_tab, Len(shared))
          ELSE current_tab
    /\ tab_mode' = IF ui_key = "p" THEN tab_mode ELSE update_tab_mode(current_tab')
    /\ current_plot_view' =
          IF ui_key = "p"
          THEN next_plot_view(current_plot_view, has_ssh(shared, tab_mode))
          ELSE current_plot_view
    /\ shared' = [k \in DOMAIN shared |-> shared[Len(shared) + 1 - k]]
    /\ ReleaseLock
    /\ ui_key' = "none"
    /\ ui_pc' = "draw_lock"
    /\ UNCHANGED <<completed, history_size, targets, inserted_ping, inserted_ssh,
                   ssh_outcomes, pctVars, tmVars, cycle_limit, mon_pc,
                   cycle_kind, handles, probes, ping_due, ssh_due, ui_view,
                   cycles_started, cycles_done, published, end_states>>

\* the handler reads targets.len() or has_ssh through the guard, drops the
\* guard at the end of the block, and updates the App; should_quit is false
\* and the loop draws again
UiKeyHandle ==
    /\ ui_pc = "key_locked"
    /\ current_tab' =
          IF ui_key = "Tab" THEN next_tab(current_tab, Len(shared))
          ELSE IF ui_key = "BackTab" THEN previous_tab(current_tab, Len(shared))
          ELSE current_tab
    /\ tab_mode' = IF ui_key = "p" THEN tab_mode ELSE update_tab_mode(current_tab')
    /\ current_plot_view' =
          IF ui_key = "p"
          THEN next_plot_view(current_plot_view, has_ssh(shared, tab_mode))
          ELSE current_plot_view
    /\ ReleaseLock
    /\ ui_key' = "none"
    /\ ui_pc' = "draw_lock"
    /\ UNCHANGED <<completed, history_size, targets, inserted_ping, inserted_ssh,
                   ssh_outcomes, pctVars, tmVars, cycle_limit, shared, mon_pc,
                   cycle_kind, handles, probes, ping_due, ssh_due, ui_view,
                   cycles_started, cycles_done, published, end_states>>

\* cycles of SpecUi
MaxUiCycles == 1

InitUi == Start(Some(MaxUiCycles), {1}, SysConfigs)

NextUi ==
    \/ Next
    \/ \E key \in LockingKeys : UiKey(key)
    \/ UiKeyWake
    \/ UiKeyHandle

SpecUi == InitUi /\ [][NextUi]_vars

-----------------------------------------------------------------------------
(* Properties of percentile (SpecPct) *)

\* the reference definition in integer arithmetic: rank = (p/100)*(n-1),
\* r100 = 100*rank; the element at rank when r100 is a multiple of 100,
\* otherwise the interpolation of the floor and ceiling elements weighted by
\* the fractional part
RefPercentile(s, p) ==
    LET n == Len(s)
        r100 == p * (n - 1)
        k == r100 \div 100
        f == r100 % 100
    IN IF n = 0 THEN FromInt(0)
       ELSE IF n = 1 THEN FromInt(s[1])
       ELSE IF f = 0 THEN FromInt(s[k + 1])
       ELSE Rat(s[k + 1] * (100 - f) + s[k + 2] * f, 100)

\* C7: percentile returns the reference value for every sorted sample list
\* and every p in {25, 50, 75, 90, 95, 99}; [10,20,30,40] at p = 50 gives 25;
\* a single sample is returned for every p; the empty list gives 0.
C7_PercentileIsReference ==
    IsSome(pct_result) =>
        /\ Unwrap(pct_result) = RefPercentile(pct_sorted, pct_p)
        /\ (pct_sorted = <<10, 20, 30, 40>> /\ pct_p = 50)
              => Unwrap(pct_result) = FromInt(25)
        /\ Len(pct_sorted) = 1 => Unwrap(pct_result) = FromInt(pct_sorted[1])
        /\ Len(pct_sorted) = 0 => Unwrap(pct_result) = FromInt(0)

C7_Witness ==
    /\ pct_sorted = <<10, 20, 30, 40>>
    /\ pct_p = 50
    /\ pct_result = Some(FromInt(25))

-----------------------------------------------------------------------------
(* Properties of TargetStats (SpecTarget) *)

TargetIds == 1..Len(targets)

Min2(a, b) == IF a < b THEN a ELSE b

\* the last k elements of s
LastN(s, k) == SubSeq(s, Len(s) - k + 1, Len(s))

\* number of entries of a history whose success flag is set
RECURSIVE CountSuccess(_)
CountSuccess(h) ==
    IF h = <<>> THEN 0
    ELSE (IF Head(h).success THEN 1 ELSE 0) + CountSuccess(Tail(h))

\* a window without its timestamps
PingOutcomes(h) == [k \in 1..Len(h) |-> h[k].latency_ms]
SshOutcomes(h) == [k \in 1..Len(h) |-> h[k].connection_time_ms]

\* C2: the length of ping_history and of ssh_history never exceeds
\* history_size, for every history_size including 0.
C2_CapacityInvariant ==
    \A i \in TargetIds :
        /\ Len(targets[i].ping_history) <= history_size
        /\ Len(targets[i].ssh_history) <= history_size

\* C3: for capacity C >= 1 a history holds the last min(N, C) of the N
\* results inserted, in insertion order: nothing is evicted below C entries
\* and each insert beyond C evicts exactly the oldest entry.
C3_FifoEviction ==
    history_size >= 1 =>
        \A i \in TargetIds :
            /\ targets[i].ping_history =
                  LastN(inserted_ping[i], Min2(Len(inserted_ping[i]), history_size))
            /\ targets[i].ssh_history =
                  LastN(inserted_ssh[i], Min2(Len(inserted_ssh[i]), history_size))

C3_Witness ==
    /\ history_size = 2
    /\ Len(inserted_ping[1]) = 4
    /\ targets[1].ping_history = <<inserted_ping[1][3], inserted_ping[1][4]>>
    /\ inserted_ping[1][1] # inserted_ping[1][3]

\* C4: for a non-empty window with S successful entries out of T, the
\* success_rate exposed equals (S/T)*100, S = 0 included (stated for the
\* capacities the window honours, history_size >= 1).
C4_SuccessRateExact ==
    history_size >= 1 =>
        \A i \in TargetIds :
            /\ (targets[i].ping_history # <<>> /\ IsSome(targets[i].ping_stats))
                  => Unwrap(targets[i].ping_stats).success_rate =
                        Rat(100 * CountSuccess(targets[i].ping_history),
                            Len(targets[i].ping_history))
            /\ (targets[i].ssh_history # <<>> /\ IsSome(targets[i].ssh_stats))
                  => Unwrap(targets[i].ssh_stats).success_rate =
                        Rat(100 * CountSuccess(targets[i].ssh_history),
                            Len(targets[i].ssh_history))

\* C5: the cached statistics are a function of the window contents: two
\* targets whose windows hold the same entries have the same statistics
\* (stated for history_size >= 1).
C5_StatsDeterminedByWindow ==
    history_size >= 1 =>
        \A i \in TargetIds, j \in TargetIds :
            /\ PingOutcomes(targets[i].ping_history)
                  = PingOutcomes(targets[j].ping_history)
                  => targets[i].ping_stats = targets[j].ping_stats
            /\ SshOutcomes(targets[i].ssh_history)
                  = SshOutcomes(targets[j].ssh_history)
                  => targets[i].ssh_stats = targets[j].ssh_stats

\* the statistics of a window, from the definitions of the data model:
\* latency figures over the values present, total_count and the success
\* rate's denominator over every entry
SetMin(S) == CHOOSE x \in S : \A y \in S : x <= y
SetMax(S) == CHOOSE x \in S : \A y \in S : y <= x
SeqRange(s) == {s[k] : k \in 1..Len(s)}

RefStatistics(values, window_len) ==
    LET sorted == SortAsc(values)
    IN [mean |-> Rat(SumSeq(values), Len(values)),
        median |-> RefPercentile(sorted, 50),
        min |-> FromInt(SetMin(SeqRange(values))),
        max |-> FromInt(SetMax(SeqRange(values))),
        p25 |-> RefPercentile(sorted, 25),
        p75 |-> RefPercentile(sorted, 75),
        p90 |-> RefPercentile(sorted, 90),
        p95 |-> RefPercentile(sorted, 95),
        p99 |-> RefPercentile(sorted, 99),
        success_rate |-> Rat(100 * Len(values), window_len),
        total_count |-> window_len]

ScenarioA(t) ==
    PingOutcomes(t.ping_history) = <<Some(10), Some(20), Some(30)>>

ScenarioB(t) ==
    PingOutcomes(t.ping_history) = <<Some(10), None, Some(30)>>

\* C6: whenever a window holds an entry with a latency, the cached latency
\* figures are those of the entries that carry a latency and total_count is
\* the number of all entries; [10, failure, 30] gives figures over {10, 30},
\* success_rate 200/3 and total_count 3; [10, 20, 30] gives mean 20,
\* median 20, success_rate 100 and total_count 3.
C6_StatsOverLatencyEntries ==
    \A i \in TargetIds :
        LET t == targets[i]
            pv == PingLatencyValues(t.ping_history)
            sv == SshTimeValues(t.ssh_history)
        IN /\ pv # <<>> =>
                 t.ping_stats = Some(RefStatistics(pv, Len(t.ping_history)))
           /\ sv # <<>> =>
                 t.ssh_stats = Some(RefStatistics(sv, Len(t.ssh_history)))
           /\ ScenarioB(t) =>
                 /\ Unwrap(t.ping_stats).success_rate = Rat(200, 3)
                 /\ Unwrap(t.ping_stats).total_count = 3
                 /\ Unwrap(t.ping_stats).min = FromInt(10)
                 /\ Unwrap(t.ping_stats).max = FromInt(30)
                 /\ Unwrap(t.ping_stats).mean = FromInt(20)
                 /\ Unwrap(t.ping_stats).median = FromInt(20)
                 /\ Unwrap(t.ping_stats).p25 = FromInt(15)
                 /\ Unwrap(t.ping_stats).p75 = FromInt(25)
                 /\ Unwrap(t.ping_stats).p90 = FromInt(28)
                 /\ Unwrap(t.ping_stats).p95 = FromInt(29)
                 /\ Unwrap(t.ping_stats).p99 = Rat(149, 5)
           /\ ScenarioA(t) =>
                 /\ Unwrap(t.ping_stats).mean = FromInt(20)
                 /\ Unwrap(t.ping_stats).median = FromInt(20)
                 /\ Unwrap(t.ping_stats).success_rate = FromInt(100)
                 /\ Unwrap(t.ping_stats).total_count = 3

C6_Witness ==
    /\ history_size = 3
    /\ ScenarioB(targets[1])
    /\ Unwrap(targets[1].ping_stats).total_count = 3
    /\ Unwrap(targets[1].ping_stats).success_rate = Rat(200, 3)

-----------------------------------------------------------------------------
(* Properties of the monitoring task and the snapshot (Spec) *)

Prefix(s, n) == SubSeq(s, 1, n)

ProbeIds == DOMAIN probes

\* C1: what a reader has read of the snapshot during one draw is, for all
\* the targets read, the engine's target states at the end of one single
\* completed cycle (or the initial state), never a mix of two cycles.
C1_SnapshotAtomic ==
    ui_pc = "drawing" =>
        \E k \in 1..Len(end_states) :
            ui_view = Prefix(end_states[k], Len(ui_view))

C1_Witness ==
    /\ ui_pc = "drawing"
    /\ Len(ui_view) = Len(shared)
    /\ mon_pc = "lock_wait"
    /\ published >= 1
    /\ ui_view = end_states[published + 1]
    /\ \A k \in 1..Len(end_states) :
          k # published + 1 => ui_view[1] # end_states[k][1]

\* C8: at most one cycle is in progress; the probes in flight all belong to
\* it; when the driver waits on the timers no cycle is in progress, no probe
\* is in flight and no handle is left to join.
C8_CyclesExclusive ==
    /\ cycles_started - cycles_done \in {0, 1}
    /\ \A i \in ProbeIds :
          probes[i].status # "idle" =>
              /\ probes[i].kind = cycle_kind
              /\ mon_pc = "join"
    /\ mon_pc = "select" =>
          /\ cycles_started = cycles_done
          /\ handles = <<>>
          /\ cycle_kind = "none"

C8_Witness ==
    /\ mon_pc = "join"
    /\ cycle_kind = "ping"
    /\ cycles_started = 2
    /\ ssh_due
    /\ \E i \in ProbeIds : probes[i].status = "running"

\* C9: whenever the driver waits on the timers, the shared snapshot equals
\* the engine's own target states, the state of the last completed cycle.
C9_PublishedWhenWaiting ==
    mon_pc = "select" =>
        /\ shared = targets
        /\ shared = end_states[cycles_done + 1]

C9_Witness ==
    /\ mon_pc = "select"
    /\ cycles_done = 2
    /\ shared = targets
    /\ shared # end_states[2]
    /\ targets[1].ssh_history # <<>>
    /\ targets[1].ping_history # <<>>

\* C10 as claimed: at the step in which the reader acquires the lock, the
\* snapshot it will read is the state of the most recently completed cycle.
C10_MostRecentCompleted ==
    [][(lock_holder # "ui" /\ lock_holder' = "ui")
          => shared' = end_states'[cycles_done' + 1]]_vars

\* C10 amended: the snapshot is always the state of the last published
\* cycle, which is the most recently completed cycle or the one before it
\* (then the engine is between the cycle's end and its write); the reader
\* reads that snapshot and no other.
C10_MostRecentPublished ==
    /\ shared = end_states[published + 1]
    /\ cycles_done - published \in {0, 1}
    /\ published < cycles_done => mon_pc \in {"lock", "lock_wait", "locked"}
    /\ ui_pc = "drawing" => ui_view = Prefix(shared, Len(ui_view))

C10_Witness ==
    /\ lock_holder = "ui"
    /\ ui_pc = "drawing"
    /\ Len(ui_view) = Len(shared)
    /\ cycles_done = published + 1
    /\ published >= 1
    /\ shared # end_states[cycles_done + 1]

-----------------------------------------------------------------------------
(* SpecTarget: SSH timeout and failure records *)

\* C14: every recorded successful SSH result has a connection time of at
\* most ssh_timeout_ms: a probe whose connection and handshake take longer
\* than the timeout is recorded with success = false and no connection time.
C14_SshTimeoutBound ==
    \A i \in TargetIds :
        \A k \in 1..Len(inserted_ssh[i]) :
            /\ inserted_ssh[i][k].success =>
                  Unwrap(inserted_ssh[i][k].connection_time_ms) <= ssh_timeout_ms
            /\ ssh_outcomes[i][k].ms > ssh_timeout_ms =>
                  /\ ~inserted_ssh[i][k].success
                  /\ inserted_ssh[i][k].connection_time_ms = None

\* number of results with success = false folded into target i
FailedCount(i) ==
    (Len(inserted_ping[i]) - CountSuccess(inserted_ping[i]))
    + (Len(inserted_ssh[i]) - CountSuccess(inserted_ssh[i]))

\* C15: the failure log of a target has one entry for each failed ping or
\* SSH result folded into the target's state.
C15_FailureLogged ==
    \A i \in TargetIds : Len(failure_log(targets[i])) = FailedCount(i)

\* the kind of failure of an SSH probe, from what the network did to it
SshFailureClass(net) ==
    IF net.ms > ssh_timeout_ms THEN "timeout"
    ELSE IF net.kind = "handshake_ok" THEN "none"
    ELSE net.kind

\* what a recorded SSH result says about the probe, its timestamp aside
SshRecord(result) ==
    [connection_time_ms |-> result.connection_time_ms, success |-> result.success]

\* C16: the results recorded for a target tell a timed-out SSH probe, a
\* connection failure and a handshake failure apart: two probes that failed
\* in different ways are recorded differently.
C16_FailureTypesDistinct ==
    \A i \in TargetIds :
        \A k, l \in 1..Len(inserted_ssh[i]) :
            ( /\ SshFailureClass(ssh_outcomes[i][k]) # "none"
              /\ SshFailureClass(ssh_outcomes[i][l]) # "none"
              /\ SshFailureClass(ssh_outcomes[i][k])
                    # SshFailureClass(ssh_outcomes[i][l]) )
                => SshRecord(inserted_ssh[i][k]) # SshRecord(inserted_ssh[i][l])

-----------------------------------------------------------------------------
(* SpecTarget: the cached statistics *)

\* C29: for history_size >= 1, whenever ping_stats (ssh_stats) is present
\* its total_count is the current length of ping_history (ssh_history),
\* also when the latest insert left the statistics as they were.
C29_TotalCountIsLength ==
    history_size >= 1 =>
        \A i \in TargetIds :
            /\ IsSome(targets[i].ping_stats) =>
                  Unwrap(targets[i].ping_stats).total_count
                      = Len(targets[i].ping_history)
            /\ IsSome(targets[i].ssh_stats) =>
                  Unwrap(targets[i].ssh_stats).total_count
                      = Len(targets[i].ssh_history)

\* a full window of failures only, with the statistics of an earlier window
C29_Witness ==
    /\ history_size = 2
    /\ Len(targets[1].ping_history) = 2
    /\ CountSuccess(targets[1].ping_history) = 0
    /\ Len(inserted_ping[1]) = 3
    /\ IsSome(targets[1].ping_stats)
    /\ Unwrap(targets[1].ping_stats).total_count = 2

\* C31: ping_stats (ssh_stats) of a target is present exactly when a result
\* carrying a latency has been inserted into that history so far, whether
\* or not such a result is still in the window; as the inserted results
\* only grow, statistics that are present never become absent.
C31_StatsPresenceMonotonic ==
    \A i \in TargetIds :
        /\ IsSome(targets[i].ping_stats)
              <=> PingLatencyValues(inserted_ping[i]) # <<>>
        /\ IsSome(targets[i].ssh_stats)
              <=> SshTimeValues(inserted_ssh[i]) # <<>>

\* a window of size 1 whose only latency has been evicted by a failure
C31_Witness ==
    /\ history_size = 1
    /\ Len(inserted_ping[1]) = 2
    /\ IsSome(inserted_ping[1][1].latency_ms)
    /\ PingLatencyValues(targets[1].ping_history) = <<>>
    /\ IsSome(targets[1].ping_stats)

\* success is set exactly on the entries of a history that carry a latency
PingFlagsMatch(h) ==
    /\ \A k \in 1..Len(h) : h[k].success <=> IsSome(h[k].latency_ms)
    /\ Len(PingLatencyValues(h)) = CountSuccess(h)

SshFlagsMatch(h) ==
    /\ \A k \in 1..Len(h) : h[k].success <=> IsSome(h[k].connection_time_ms)
    /\ Len(SshTimeValues(h)) = CountSuccess(h)

\* C39: every result that ping_target or ssh_test produced, and every entry
\* of a history, has success = TRUE exactly when its latency is present, so
\* the entries the statistics select by latency are the successful ones.
C39_SuccessIffLatency ==
    \A i \in TargetIds :
        /\ PingFlagsMatch(inserted_ping[i])
        /\ PingFlagsMatch(targets[i].ping_history)
        /\ SshFlagsMatch(inserted_ssh[i])
        /\ SshFlagsMatch(targets[i].ssh_history)

\* an SSH window with one success and one failure
C39_Witness ==
    /\ Len(targets[2].ssh_history) = 2
    /\ CountSuccess(targets[2].ssh_history) = 1
    /\ Len(SshTimeValues(targets[2].ssh_history)) = 1

\* C40: for every history_size, 0 included, the statistics are assigned
\* only from a call of calculate_statistics with a non-empty sample list
\* and a positive total_count: when an insert changes ping_stats or
\* ssh_stats the window then holds a latency, and statistics that are
\* present carry no quotient with a zero divisor (mean, success_rate).
C40_NoEmptyStatistics ==
    [][
        \A i \in TargetIds :
            /\ targets'[i].ping_stats # targets[i].ping_stats
                  => PingLatencyValues(targets'[i].ping_history) # <<>>
            /\ targets'[i].ssh_stats # targets[i].ssh_stats
                  => SshTimeValues(targets'[i].ssh_history) # <<>>
            /\ \A o \in {targets'[i].ping_stats, targets'[i].ssh_stats} :
                  IsSome(o) =>
                      /\ Unwrap(o).mean.den # 0
                      /\ Unwrap(o).success_rate.den # 0
                      /\ Unwrap(o).total_count >= 1
    ]_vars

\* history_size = 0: the window holds the failure just inserted, no call
\* was made for it, and the statistics of the earlier success are kept
C40_Witness ==
    /\ history_size = 0
    /\ Len(inserted_ssh[1]) = 2
    /\ SshTimeValues(targets[1].ssh_history) = <<>>
    /\ targets[1].ssh_history # <<>>
    /\ IsSome(targets[1].ssh_stats)

\* 0 < rate <= 100 for a rate that is a number
RateInRange(rate) ==
    /\ rate.den > 0
    /\ rate.num > 0
    /\ rate.num <= 100 * rate.den

\* C30: whenever ping_stats or ssh_stats is present its success_rate is
\* greater than 0 and at most 100, whatever the window holds.
C30_SuccessRatePositive ==
    \A i \in TargetIds :
        /\ IsSome(targets[i].ping_stats) =>
              RateInRange(Unwrap(targets[i].ping_stats).success_rate)
        /\ IsSome(targets[i].ssh_stats) =>
              RateInRange(Unwrap(targets[i].ssh_stats).success_rate)

\* an SSH window of failures only that still shows a rate of 50
C30_Witness ==
    /\ history_size = 2
    /\ Len(targets[1].ssh_history) = 2
    /\ CountSuccess(targets[1].ssh_history) = 0
    /\ IsSome(targets[1].ssh_stats)
    /\ Unwrap(targets[1].ssh_stats).success_rate = Rat(50, 1)

-----------------------------------------------------------------------------
(* Spec: the fan-out of a cycle *)

\* the positions of the driver between the return of run_*_cycle and the
\* write of the snapshot
AfterCycle == {"lock", "lock_wait", "locked"}

\* the finished probes of the current cycle that belong to target i
ResultsOf(i) == {k \in 1..Len(completed) : completed[k].index = i}

\* after is before with r pushed at the back, the front evicted or not
Appended(before, after, r) ==
    \/ after = Append(before, r)
    \/ before # <<>> /\ after = Append(Tail(before), r)

\* target i gets a probe in a cycle of the given kind
Probed(i, kind) == kind = "ping" \/ SshEligible(targets[i].target)

\* C11: when a cycle has returned, whatever the order in which its probes
\* finished, every probed target has finished exactly one probe, its history
\* of the cycle's kind is its history before the cycle with the result of
\* its own probe appended (nothing appended if the task failed), and its
\* other history is untouched.
C11_FanOutIsolation ==
    mon_pc \in AfterCycle =>
        LET before == end_states[cycles_done]
            hist(t) == IF cycle_kind = "ping" THEN t.ping_history
                       ELSE t.ssh_history
            other(t) == IF cycle_kind = "ping" THEN t.ssh_history
                        ELSE t.ping_history
        IN \A i \in ProbeIds :
              /\ Cardinality(ResultsOf(i)) = (IF Probed(i, cycle_kind) THEN 1 ELSE 0)
              /\ other(targets[i]) = other(before[i])
              /\ ResultsOf(i) = {} => hist(targets[i]) = hist(before[i])
              /\ \A k \in ResultsOf(i) :
                    IF IsSome(completed[k].result)
                    THEN Appended(hist(before[i]), hist(targets[i]),
                                  Unwrap(completed[k].result))
                    ELSE hist(targets[i]) = hist(before[i])

\* the second target's probe succeeds first, the first target's fails last
C11_Witness ==
    /\ mon_pc = "lock"
    /\ cycle_kind = "ping"
    /\ Len(completed) = 2
    /\ completed[1].index = 2
    /\ completed[2].index = 1
    /\ Unwrap(completed[1].result).success
    /\ ~Unwrap(completed[2].result).success
    /\ targets[1].ping_history # <<>>
    /\ targets[2].ping_history # <<>>

\* a ping result that carries a failure
PingFailure(timestamp) ==
    [timestamp |-> timestamp, latency_ms |-> None, success |-> FALSE]

\* C12: a target whose address does not parse, or for which no client can
\* be made, gets a failed result without latency; in a ping cycle that has
\* returned, that result is the newest entry of the target's history and
\* every other target has the result of its own probe as newest entry.
C12_BadTargetNoAbort ==
    /\ \A ip \in ValidIps \cup {HostC.ip} :
          ping_target(ip, cycles_started, [kind |-> "client_err", ms |-> 0])
              = PingFailure(cycles_started)
    /\ (mon_pc \in AfterCycle /\ cycle_kind = "ping") =>
          \A i \in ProbeIds :
              /\ targets[i].ping_history # <<>>
              /\ \E k \in ResultsOf(i) :
                    targets[i].ping_history[Len(targets[i].ping_history)]
                        = Unwrap(completed[k].result)
              /\ targets[i].target.ip \notin ValidIps =>
                    targets[i].ping_history[Len(targets[i].ping_history)]
                        = PingFailure(cycles_started)

\* the bad target's probe fails, the other target's probe gets a reply
C12_Witness ==
    /\ mon_pc = "lock"
    /\ cycle_kind = "ping"
    /\ targets[1].target.ip \notin ValidIps
    /\ targets[1].ping_history = <<PingFailure(cycles_started)>>
    /\ targets[2].ping_history # <<>>
    /\ targets[2].ping_history[1].success

\* C13: an SSH probe is in flight only for a target with both ssh_port and
\* ssh_user; an SSH cycle that has returned has finished one probe for each
\* such target and none for the others; a target without one of the two has
\* an empty ssh_history and no ssh_stats.
C13_SshEligibility ==
    \A i \in ProbeIds :
        LET eligible == /\ IsSome(targets[i].target.ssh_port)
                        /\ IsSome(targets[i].target.ssh_user)
        IN /\ (probes[i].kind = "ssh" /\ probes[i].status # "idle") => eligible
           /\ (cycle_kind = "ssh" /\ mon_pc \in AfterCycle) =>
                 (ResultsOf(i) # {} <=> eligible)
           /\ ~eligible =>
                 /\ targets[i].ssh_history = <<>>
                 /\ targets[i].ssh_stats = None
                 /\ shared[i].ssh_history = <<>>
                 /\ shared[i].ssh_stats = None

\* an SSH cycle over a list with an eligible and a ping-only target
C13_Witness ==
    /\ cycle_kind = "ssh"
    /\ mon_pc = "lock"
    /\ SshEligible(targets[1].target)
    /\ targets[1].ssh_history # <<>>
    /\ ~SshEligible(targets[2].target)
    /\ targets[2].ssh_history = <<>>
    /\ targets[2].ping_history # <<>>

\* C18: while the engine holds the lock no probe is in flight and no handle
\* is left to join; the engine asks for the lock only after the cycle has
\* returned; while a cycle is in progress the engine neither holds the lock
\* nor waits for it, so a reader that asks for it gets it at once.
C18_NoLockAcrossProbes ==
    /\ lock_holder = "monitor" =>
          /\ \A i \in ProbeIds : probes[i].status = "idle"
          /\ handles = <<>>
          /\ mon_pc \in {"lock_wait", "locked"}
    /\ mon_pc \in {"select", "join"} =>
          /\ lock_holder # "monitor"
          /\ lock_queue = <<>>
    /\ (mon_pc = "join" /\ ui_pc = "draw_lock") => LockFree

\* the reader holds the lock and draws while a probe is in flight
C18_Witness ==
    /\ mon_pc = "join"
    /\ \E i \in ProbeIds : probes[i].status = "running"
    /\ lock_holder = "ui"
    /\ ui_pc = "drawing"
    /\ cycles_done >= 1

-----------------------------------------------------------------------------
(* SpecUi: the presentation loop as a reader *)

\* the state of the presentation loop; every step of run_app changes it
uiState == <<ui_pc, ui_view, current_tab, current_plot_view, tab_mode, ui_key>>

\* C19: every step of the presentation loop (taking or waiting for the
\* lock, reading the snapshot for a frame, dropping the guard, handling
\* Tab, BackTab, 'p' or 'q') leaves the shared snapshot and the engine's
\* target states unchanged; the snapshot changes only in the engine's write
\* under the lock.
C19_SingleWriter ==
    [][ /\ uiState' # uiState => (shared' = shared /\ targets' = targets)
        /\ shared' # shared =>
              (mon_pc = "locked" /\ lock_holder = "monitor" /\ shared' = targets)
      ]_vars

\* Tab, BackTab and 'p' have been handled around a cycle whose results are
\* published
C19_Witness ==
    /\ current_tab = 2
    /\ tab_mode = [kind |-> "Individual", idx |-> 1]
    /\ current_plot_view = "SshOnly"
    /\ ui_pc = "key_locked"
    /\ ui_key = "BackTab"
    /\ published = 1
    /\ shared = targets
    /\ shared[1].ping_history # <<>>

-----------------------------------------------------------------------------
(* SpecUi: tabs and plot views *)

\* the largest number of targets for which the tab functions are compared
MaxTargets == 3

\* n calls of next_tab
RECURSIVE NextTabTimes(_, _, _)
NextTabTimes(tab, max_tabs, n) ==
    IF n = 0 THEN tab
    ELSE NextTabTimes(next_tab(tab, max_tabs), max_tabs, n - 1)

\* C38: with N targets in the snapshot the current tab lies in 0..N and
\* tab_mode is AllTargets exactly for tab 0 and Individual(tab - 1), with
\* tab - 1 < N, otherwise; and for every N from 1 to MaxTargets and every
\* tab in 0..N, next_tab then previous_tab and previous_tab then next_tab
\* give the tab back, and N + 1 calls of next_tab return to it.
C38_TabNavigation ==
    /\ current_tab \in 0..Len(shared)
    /\ tab_mode = update_tab_mode(current_tab)
    /\ (tab_mode.kind = "AllTargets") <=> (current_tab = 0)
    /\ tab_mode.kind = "Individual" =>
          (tab_mode.idx = current_tab - 1 /\ tab_mode.idx < Len(shared))
    /\ \A n \in 1..MaxTargets :
          \A tab \in 0..n :
              /\ next_tab(tab, n) \in 0..n
              /\ previous_tab(tab, n) \in 0..n
              /\ previous_tab(next_tab(tab, n), n) = tab
              /\ next_tab(previous_tab(tab, n), n) = tab
              /\ NextTabTimes(tab, n, n + 1) = tab

\* on the last tab, Tab pressed and about to wrap around to All Targets
C38_Witness ==
    /\ ui_pc = "key_locked"
    /\ ui_key = "Tab"
    /\ current_tab = Len(shared)
    /\ tab_mode = [kind |-> "Individual", idx |-> Len(shared) - 1]
    /\ next_tab(current_tab, Len(shared)) = 0

\* C36: every target that a frame draws gets the SSH statistics pane
\* exactly when the engine issues SSH probes for it, and when 'p' is
\* handled on the tab of an individual target, the SSH plot view is offered
\* exactly when the engine issues SSH probes for that target.
C36_SshAgreement ==
    /\ \A k \in 1..Len(ui_view) :
          render_statistics_has_ssh(ui_view[k])
              <=> SshEligible(ui_view[k].target)
    /\ (ui_pc = "key_locked" /\ ui_key = "p" /\ tab_mode.kind = "Individual") =>
          (has_ssh(shared, tab_mode)
              <=> SshEligible(shared[tab_mode.idx + 1].target))

\* C37 as stated: whatever keys have been handled, the plot view is SshOnly
\* only if the selected tab has SSH: the selected target has an SSH port,
\* or, on the All Targets tab, some target has one.
C37_SshOnlyNeedsSsh ==
    current_plot_view = "SshOnly" => has_ssh(shared, tab_mode)

\* C37: the plot view becomes SshOnly only when 'p' is handled in the view
\* PingOnly on a tab that has SSH, and the handlers of Tab and BackTab
\* leave the plot view as it is.
C37_SshOnlyEntered ==
    [][
        /\ (current_plot_view' = "SshOnly" /\ current_plot_view # "SshOnly") =>
              /\ ui_pc = "key_locked"
              /\ ui_key = "p"
              /\ current_plot_view = "PingOnly"
              /\ has_ssh(shared, tab_mode)
        /\ (ui_pc = "key_locked" /\ ui_key \in {"Tab", "BackTab"}) =>
              current_plot_view' = current_plot_view
    ]_vars

\* the SSH view, entered on the tab of a target with SSH, is still selected
\* on the tab of a target without
C37_Witness ==
    /\ current_plot_view = "SshOnly"
    /\ tab_mode.kind = "Individual"
    /\ ~has_ssh(shared, tab_mode)
    /\ ui_pc = "draw_lock"

\* the tasks that hold the lock or wait for it, in order
LockUsers ==
    (IF lock_holder = "none" THEN <<>> ELSE <<lock_holder>>) \o lock_queue

\* C34: each task holds or awaits the lock at most once; the presentation
\* loop holds it only while drawing or inside a key handler and has given
\* up its draw guard when it polls and when a handler asks for the lock;
\* the engine holds or awaits it only between the end of a cycle and the
\* write of the snapshot; and somebody who is not waiting holds the lock
\* whenever a task waits, so the two tasks never wait for each other.
C34_NoLockDeadlock ==
    /\ \A a, b \in 1..Len(LockUsers) : LockUsers[a] = LockUsers[b] => a = b
    /\ \A a \in 1..Len(LockUsers) : LockUsers[a] \in {"ui", "monitor"}
    /\ (\E a \in 1..Len(LockUsers) : LockUsers[a] = "ui")
          <=> ui_pc \in {"drawing", "draw_wait", "key_locked", "key_wait"}
    /\ ui_pc \in {"drawing", "key_locked"} => lock_holder = "ui"
    /\ (\E a \in 1..Len(LockUsers) : LockUsers[a] = "monitor")
          <=> mon_pc \in {"locked", "lock_wait"}
    /\ mon_pc = "locked" => lock_holder = "monitor"
    /\ mon_pc \in {"lock", "lock_wait", "locked"} =>
          (handles = <<>> /\ \A i \in ProbeIds : probes[i].status = "idle")
    /\ lock_queue # <<>> => lock_holder # "none"
    /\ ~(mon_pc = "lock_wait" /\ lock_holder # "monitor"
           /\ ui_pc \in {"draw_wait", "key_wait"} /\ lock_holder # "ui")

\* a key handler waits for the lock while the engine holds it for the write
C34_Witness ==
    /\ ui_pc = "key_wait"
    /\ ui_key = "p"
    /\ lock_holder = "monitor"
    /\ lock_queue = <<"ui">>
    /\ mon_pc = "locked"

-----------------------------------------------------------------------------
(* Spec: the set of targets and what the presentation layer sees *)

\* the descriptors of a list of target states, in its order
Descriptors(ts) == [i \in 1..Len(ts) |-> ts[i].target]

\* C22: in every reachable state the engine's collection and the shared
\* snapshot hold exactly the configured targets, one target state each, in
\* the order of the configuration and with the descriptors of the
\* configuration; no cycle adds, removes or reorders a target.
C22_TargetsFixed ==
    /\ Descriptors(targets) \in SysConfigs
    /\ Descriptors(targets) = Descriptors(end_states[1])
    /\ Descriptors(shared) = Descriptors(end_states[1])
    /\ \A k \in 1..Len(end_states) :
          Descriptors(end_states[k]) = Descriptors(end_states[1])

\* a ping cycle and an SSH cycle have been published
C22_Witness ==
    /\ published = 2
    /\ mon_pc = "select"
    /\ shared[1].ping_history # <<>>
    /\ shared[1].ssh_history # <<>>
    /\ Len(shared) = 2

StatFields == {"mean", "median", "min", "max", "p25", "p75", "p90", "p95",
               "p99", "success_rate"}

\* statistics that are numbers over at least one entry
WellFormedStats(o) ==
    o # None =>
        /\ IsSome(o)
        /\ DOMAIN Unwrap(o) = StatFields \cup {"total_count"}
        /\ Unwrap(o).total_count >= 1
        /\ \A f \in StatFields : Unwrap(o)[f].den > 0

\* a target state: a descriptor, two histories of results, two optional
\* statistics
WellFormedTarget(t) ==
    /\ DOMAIN t = {"target", "ping_history", "ssh_history", "ping_stats",
                   "ssh_stats"}
    /\ \A k \in 1..Len(t.ping_history) :
          /\ DOMAIN t.ping_history[k] = {"timestamp", "latency_ms", "success"}
          /\ t.ping_history[k].success = IsSome(t.ping_history[k].latency_ms)
    /\ \A k \in 1..Len(t.ssh_history) :
          /\ DOMAIN t.ssh_history[k]
                = {"timestamp", "connection_time_ms", "success"}
          /\ t.ssh_history[k].success
                = IsSome(t.ssh_history[k].connection_time_ms)
    /\ WellFormedStats(t.ping_stats)
    /\ WellFormedStats(t.ssh_stats)

\* C23: until the first cycle has been published the snapshot, and what a
\* frame reads of it, is every configured target with empty histories and
\* absent statistics; at all times every element of the snapshot and of a
\* frame is a well-formed target state.
C23_DataOrAbsence ==
    LET fresh == Monitor_new(Descriptors(end_states[1]), history_size)
    IN /\ published = 0 =>
             /\ shared = fresh
             /\ \A i \in 1..Len(ui_view) : ui_view[i] = fresh[i]
       /\ \A i \in 1..Len(shared) : WellFormedTarget(shared[i])
       /\ \A i \in 1..Len(ui_view) : WellFormedTarget(ui_view[i])

\* a frame drawn after a cycle was published: one target with statistics,
\* one with a failure and none
C23_Witness ==
    /\ published >= 1
    /\ ui_pc = "drawing"
    /\ Len(ui_view) = 2
    /\ IsSome(ui_view[1].ping_stats)
    /\ ui_view[2].ping_history # <<>>
    /\ ui_view[2].ping_stats = None

\* the timestamps of a history grow from front to back
InCycleOrder(history) ==
    \A k, l \in 1..Len(history) :
        k < l => history[k].timestamp < history[l].timestamp

\* C26: the entries of every history, in the engine's collection and in the
\* snapshot, appear in the order of the cycles that produced them: a
\* result of a later cycle never stands before a result of an earlier one.
C26_CrossCycleOrder ==
    \A i \in TargetIds :
        /\ InCycleOrder(targets[i].ping_history)
        /\ InCycleOrder(targets[i].ssh_history)
        /\ InCycleOrder(shared[i].ping_history)
        /\ InCycleOrder(shared[i].ssh_history)

\* two ping cycles have left their results in one published history
C26_Witness ==
    /\ Len(shared[1].ping_history) = 2
    /\ shared[1].ping_history[1].timestamp = 1
    /\ shared[1].ping_history[2].timestamp = 2

\* C27: within a cycle every target gets at most one probe, and exactly
\* one if the cycle probes it: a target whose probe has finished, with
\* whatever result, has no probe in flight again, a returned cycle has one
\* finished probe per probed target, and each history is at most one entry
\* longer than before the cycle.
C27_NoRetry ==
    mon_pc # "select" =>
        LET before == end_states[cycles_started]
        IN \A i \in ProbeIds :
              /\ Cardinality(ResultsOf(i)) <= 1
              /\ ResultsOf(i) # {} =>
                    probes[i].status \notin {"running", "blocked"}
              /\ ~Probed(i, cycle_kind) => probes[i].status = "idle"
              /\ mon_pc \in AfterCycle /\ Probed(i, cycle_kind) =>
                    Cardinality(ResultsOf(i)) = 1
              /\ Len(targets[i].ping_history)
                    <= Len(before[i].ping_history) + 1
              /\ Len(targets[i].ssh_history)
                    <= Len(before[i].ssh_history) + 1

\* the second cycle, an SSH cycle, has returned with a failed probe that
\* was recorded once
C27_Witness ==
    /\ mon_pc = "locked"
    /\ cycle_kind = "ssh"
    /\ cycles_started = 2
    /\ Len(completed) = 1
    /\ IsSome(completed[1].result)
    /\ ~Unwrap(completed[1].result).success
    /\ Len(targets[1].ssh_history)
          = Len(end_states[2][1].ssh_history) + 1

\* the probe of target i is in flight
InFlight(i) == probes[i].status \in {"running", "blocked"}

\* C25: within a cycle no target state is modified until every probe of
\* the cycle has completed: while a probe of the cycle is in flight, the
\* engine's collection is what it was when the cycle started.
C25_JoinBeforeUpdate ==
    (mon_pc = "join" /\ \E j \in ProbeIds : InFlight(j)) =>
        targets = end_states[cycles_started]

\* the timeout the engine itself puts around a probe: ssh_test wraps its
\* body in tokio::time::timeout(timeout, ..), ping_target awaits
\* pinger.ping(..) as it is
EngineTimeout(kind) ==
    IF kind = "ssh" THEN Some(ssh_timeout_ms) ELSE None

\* C21: every ping probe in flight is under a timeout that the engine
\* enforces.
C21_PingTimeoutEnforced ==
    \A i \in ProbeIds :
        (probes[i].kind = "ping" /\ InFlight(i)) =>
            IsSome(EngineTimeout(probes[i].kind))

-----------------------------------------------------------------------------
(* SpecPair: a worker task that ends abnormally *)

\* C28: when a cycle has returned in which the worker task of a target
\* ended abnormally, that target's state (histories and statistics) is what
\* it was before the cycle, every other target's state is its state before
\* the cycle with its own result added, and the cycle is published like
\* any other: once the driver waits again the snapshot is the collection.
C28_JoinFailureDropped ==
    /\ mon_pc \in AfterCycle =>
          LET before == end_states[cycles_done]
          IN \A k \in 1..Len(completed) :
                LET i == completed[k].index
                IN IF completed[k].result = None
                   THEN targets[i] = before[i]
                   ELSE targets[i] =
                          IF cycle_kind = "ping"
                          THEN add_ping_result(before[i],
                                               Unwrap(completed[k].result),
                                               history_size)
                          ELSE add_ssh_result(before[i],
                                              Unwrap(completed[k].result),
                                              history_size)
    /\ mon_pc = "select" =>
          /\ published = cycles_done
          /\ shared = targets

\* the second cycle, an SSH cycle: the task of target 1, which has a
\* history and statistics, panicked; the probe of target 2 succeeded
C28_Witness ==
    /\ mon_pc = "locked"
    /\ cycle_kind = "ssh"
    /\ cycles_started = 2
    /\ \E k \in 1..Len(completed) :
          completed[k].index = 1 /\ completed[k].result = None
    /\ \E k \in 1..Len(completed) :
          /\ completed[k].index = 2
          /\ IsSome(completed[k].result)
          /\ Unwrap(completed[k].result).success
    /\ IsSome(targets[1].ssh_stats)
    /\ Len(targets[2].ssh_history) = 2

\* the entries of a history that the current cycle produced
CycleEntries(h) ==
    {h[k] : k \in {l \in 1..Len(h) : h[l].timestamp = cycles_started}}

\* the results that the finished probes of target i carry
OwnResults(i) ==
    {Unwrap(completed[k].result) :
        k \in {l \in ResultsOf(i) : IsSome(completed[l].result)}}

\* C32: when a cycle has returned, in whatever order its probes finished,
\* the entries of the cycle in target i's history of the cycle's kind are
\* exactly the results of the probe issued for index i, and the cycle has
\* left no entry in the other history of any target.
C32_ResultRouting ==
    mon_pc \in AfterCycle =>
        \A i \in ProbeIds :
            IF cycle_kind = "ping"
            THEN /\ CycleEntries(targets[i].ping_history) = OwnResults(i)
                 /\ CycleEntries(targets[i].ssh_history) = {}
            ELSE /\ CycleEntries(targets[i].ssh_history) = OwnResults(i)
                 /\ CycleEntries(targets[i].ping_history) = {}

\* an SSH cycle in which the probe of target 2 failed first and the probe
\* of target 1 succeeded last
C32_Witness ==
    /\ mon_pc = "lock"
    /\ cycle_kind = "ssh"
    /\ Len(completed) = 2
    /\ completed[1].index = 2
    /\ completed[2].index = 1
    /\ IsSome(completed[1].result)
    /\ IsSome(completed[2].result)
    /\ ~Unwrap(completed[1].result).success
    /\ Unwrap(completed[2].result).success
    /\ OwnResults(1) # OwnResults(2)

-----------------------------------------------------------------------------
(* Spec: the frame of a cycle *)

\* C33: from the start of a cycle to its publication, a ping cycle leaves
\* ssh_history and ssh_stats of every target as they were before the cycle,
\* an SSH cycle leaves ping_history and ping_stats of every target and the
\* whole state of every target that is not SSH-eligible as they were, and
\* no descriptor changes.
C33_CycleFrame ==
    mon_pc # "select" =>
        LET before == end_states[cycles_started]
        IN \A i \in TargetIds :
              /\ targets[i].target = before[i].target
              /\ cycle_kind = "ping" =>
                    /\ targets[i].ssh_history = before[i].ssh_history
                    /\ targets[i].ssh_stats = before[i].ssh_stats
              /\ cycle_kind = "ssh" =>
                    /\ targets[i].ping_history = before[i].ping_history
                    /\ targets[i].ping_stats = before[i].ping_stats
                    /\ ~SshEligible(targets[i].target) =>
                          targets[i] = before[i]

\* an SSH cycle after a ping cycle: target 1 has its SSH result, target 2,
\* which takes no SSH probe, has only its ping result
C33_Witness ==
    /\ mon_pc = "lock"
    /\ cycle_kind = "ssh"
    /\ targets[1].ssh_history # <<>>
    /\ targets[1].ping_history # <<>>
    /\ ~SshEligible(targets[2].target)
    /\ targets[2].ping_history # <<>>
    /\ IsSome(targets[2].ping_stats)

-----------------------------------------------------------------------------
(* Spec: the end of the process *)

\* the presentation loop has ended: run_ui has returned, main's select!
\* has completed and main returns
Exited == ui_pc = "exited"

\* #[tokio::main]: when main returns the runtime is dropped; the drop
\* cancels every task at its next await and waits for the worker threads,
\* so a task inside a blocking call that never returns keeps the process
\* from terminating
Terminated ==
    /\ Exited
    /\ \A i \in ProbeIds : probes[i].status # "blocked"

\* C24: while the process runs no probe in flight and no started cycle is
\* cancelled; only the end of the presentation loop ends the process; and
\* when the presentation loop has ended the process terminates, whatever
\* the cycle in progress and its probes are doing.
C24_CancellationOnlyAtExit ==
    [][
        /\ ~Exited' =>
            /\ \A i \in ProbeIds :
                  InFlight(i) =>
                      probes'[i].status \in {"running", "blocked", "done",
                                              "panicked"}
            /\ mon_pc = "join" =>
                  \/ mon_pc' = "join"
                  \/ mon_pc' = "lock" /\ handles = <<>>
        /\ (~Exited /\ Exited') => ui_pc = "poll"
        /\ Exited' => Terminated'
    ]_vars

\* C35: with the lock granted in FIFO order and the presentation loop
\* drawing and polling for ever, a cycle that has returned is followed by
\* the write of its state to the snapshot, and an engine that waits for the
\* lock is handed it, unless the process ends first.
C35_PublishLiveness ==
    /\ (mon_pc \in {"lock", "lock_wait"})
          ~> ((mon_pc = "select" /\ shared = targets) \/ Exited)
    /\ (mon_pc = "lock_wait") ~> (lock_holder = "monitor" \/ Exited)

\* the engine waits behind the presentation loop, which is drawing
C35_Witness ==
    /\ mon_pc = "lock_wait"
    /\ lock_holder = "ui"
    /\ lock_queue = <<"monitor">>
    /\ ui_pc = "drawing"
    /\ shared # targets

\* C17: as long as the process runs, a cycle that has started is followed
\* by the driver waiting on its timers again, whatever its probes did, and
\* a ping cycle and an SSH cycle each start again and again.
C17_NoCycleFatal ==
    /\ (mon_pc # "select") ~> (mon_pc = "select" \/ Exited)
    /\ []<>((mon_pc = "join" /\ cycle_kind = "ping") \/ Exited)
    /\ []<>((mon_pc = "join" /\ cycle_kind = "ssh") \/ Exited)

-----------------------------------------------------------------------------
(* SpecTimer: the ratio of the two timers *)

\* C20: in both drivers the SSH timer's period is exactly 5 times the ping
\* timer's period, and whenever the driver sleeps, the ping timer has
\* delivered five ticks for every tick of the SSH timer after the first:
\* 5 * (s - 1) < p <= 5 * s for p ping ticks and s SSH ticks.
C20_SshPeriodFiveTimes ==
    tm_pc = "running" =>
        /\ interval.period = ping_interval_ms
        /\ ssh_interval.period = BigMul(interval.period, 5)
        /\ (~Due(interval) /\ ~Due(ssh_interval)) =>
              /\ 5 * (ssh_interval.ticks - 1) < interval.ticks
              /\ interval.ticks <= 5 * ssh_interval.ticks

====
